---------------------------- MODULE Spec2Model ----------------------------
(***************************************************************************)
(* A model of bottom (vvkkhjt/bottom): the event loop and the producer     *)
(* threads of src/main.rs, and the handlers and the process-list           *)
(* transformation engine of src/lib.rs.                                    *)
(*                                                                         *)
(* Strings are sequences of character codes ("a" is <<97>>), so that       *)
(* to_lowercase and the byte-wise order of Rust's String are computed and  *)
(* not assumed.  Floating point columns are integers (no NaN).             *)
(***************************************************************************)
EXTENDS Integers, Sequences, FiniteSets, TLC

(***************************************************************************)
(* Bounds of the model.                                                    *)
(***************************************************************************)
\* Longest process list drawn as an input of the engine.
MaxLen == 3

(***************************************************************************)
(* Strings.                                                                *)
(***************************************************************************)
\* Option<T>: None is the empty sequence, Some(x) is <<x>>.
None == <<>>
Some(x) == <<x>>

str_a == <<97>>
str_A == <<65>>
str_B == <<66>>
str_z == <<122>>
str_a_v == <<97, 32, 45, 118>>
str_paren == <<40>>
str_R == <<82>>
str_S == <<83>>
str_s == <<115>>

\* char::to_lowercase on ASCII: 'A'..'Z' (65..90) move to 'a'..'z'.
to_lowercase(s) == [i \in 1..Len(s) |-> IF s[i] >= 65 /\ s[i] <= 90 THEN s[i] + 32 ELSE s[i]]

\* PartialOrd of String, Vec and (wrapped in a one-element sequence) of the
\* numeric types: lexicographic, a proper prefix is Less.
RECURSIVE partial_cmp(_, _)
partial_cmp(a, b) ==
    IF a = <<>> /\ b = <<>> THEN "Equal"
    ELSE IF a = <<>> THEN "Less"
    ELSE IF b = <<>> THEN "Greater"
    ELSE IF Head(a) < Head(b) THEN "Less"
    ELSE IF Head(a) > Head(b) THEN "Greater"
    ELSE partial_cmp(Tail(a), Tail(b))

\* str::contains
contains(hay, needle) ==
    \E i \in 0..(Len(hay) - Len(needle)) : SubSeq(hay, i + 1, i + Len(needle)) = needle

\* utils::gen_util::get_ordering(a_val, b_val, descending_order)
get_ordering(a_val, b_val, descending_order) ==
    LET x == partial_cmp(a_val, b_val)
    IN  IF x = "Greater" THEN (IF descending_order THEN "Less" ELSE "Greater")
        ELSE IF x = "Less" THEN (IF descending_order THEN "Greater" ELSE "Less")
        ELSE "Equal"

(***************************************************************************)
(* Unsigned integers of 64 and 128 bits.                                   *)
(***************************************************************************)
\* A u64 is four and a u128 eight digits of base 2^16, the most significant
\* first, so that PartialOrd on two values of a type is partial_cmp.
u64(n) == <<0, 0, 0, n>>

u128(n) == <<0, 0, 0, 0, 0, 0, 0, n>>

\* std::u64::MAX
u64_MAX == <<65535, 65535, 65535, 65535>>

\* u128::from(x) of a u64
u128_from(x) == <<0, 0, 0, 0>> \o x

\* x as u64 of a u128: the low 64 bits
as_u64(x) == SubSeq(x, 5, 8)

\* constants::DEFAULT_REFRESH_RATE_IN_MILLISECONDS
DEFAULT_REFRESH_RATE_IN_MILLISECONDS == u128(1000)

(***************************************************************************)
(* Process records.                                                        *)
(***************************************************************************)
\* The harvested ProcessRecords the inputs are built from: two records of
\* the same name, names that differ only in case, names whose byte order
\* and case-insensitive order differ ("B" < "a" byte-wise), equal cpu
\* values, a child with a smaller pid than its parent (3 -> 1 -> 2) and a
\* process whose parent is not in the list.
ProcessPool ==
    { [pid |-> 1, ppid |-> Some(3), name |-> str_a, command |-> str_a_v,
       cpu_percent_usage |-> 10, mem_percent_usage |-> 2, mem_usage_bytes |-> 20,
       rps |-> 0, wps |-> 1, tr |-> 4, tw |-> 4, process_state |-> str_R],
      [pid |-> 2, ppid |-> Some(1), name |-> str_a, command |-> str_a,
       cpu_percent_usage |-> 5, mem_percent_usage |-> 1, mem_usage_bytes |-> 10,
       rps |-> 1, wps |-> 1, tr |-> 2, tw |-> 0, process_state |-> str_S],
      [pid |-> 3, ppid |-> None, name |-> str_B, command |-> str_B,
       cpu_percent_usage |-> 5, mem_percent_usage |-> 2, mem_usage_bytes |-> 20,
       rps |-> 0, wps |-> 0, tr |-> 2, tw |-> 4, process_state |-> str_s],
      [pid |-> 4, ppid |-> Some(7), name |-> str_A, command |-> str_z,
       cpu_percent_usage |-> 5, mem_percent_usage |-> 1, mem_usage_bytes |-> 10,
       rps |-> 1, wps |-> 0, tr |-> 4, tw |-> 0, process_state |-> str_S] }

Range(s) == {s[i] : i \in 1..Len(s)}

\* The sequences of distinct pool records of length n.
RECURSIVE ListsOfLen(_)
ListsOfLen(n) ==
    IF n = 0 THEN {<<>>}
    ELSE UNION {{Append(l, r) : r \in ProcessPool \ Range(l)} : l \in ListsOfLen(n - 1)}

\* pid is unique within a snapshot; the order is the harvester's.
ProcessLists == UNION {ListsOfLen(n) : n \in 0..MaxLen}

\* data_conversion::convert_process_data: one ConvertedProcessData per
\* harvested process, its own pid as the only group pid, not disabled.
convert_process_data(data_collection) ==
    [i \in 1..Len(data_collection) |->
        [pid |-> data_collection[i].pid,
         ppid |-> data_collection[i].ppid,
         name |-> data_collection[i].name,
         command |-> data_collection[i].command,
         cpu_percent_usage |-> data_collection[i].cpu_percent_usage,
         mem_percent_usage |-> data_collection[i].mem_percent_usage,
         mem_usage_bytes |-> data_collection[i].mem_usage_bytes,
         rps_f64 |-> data_collection[i].rps,
         wps_f64 |-> data_collection[i].wps,
         tr_f64 |-> data_collection[i].tr,
         tw_f64 |-> data_collection[i].tw,
         process_state |-> data_collection[i].process_state,
         group_pids |-> <<data_collection[i].pid>>,
         is_disabled_entry |-> FALSE]]

(***************************************************************************)
(* Sorting (lib.rs).                                                       *)
(***************************************************************************)
ProcessSorting ==
    {"CpuPercent", "Mem", "MemPercent", "ProcessName", "Command", "Pid",
     "ReadPerSecond", "WritePerSecond", "TotalRead", "TotalWrite", "State", "Count"}

\* The value a sort_by closure of sort_process_data compares, per key.
SortKey(key, p) ==
    CASE key = "name_lower" -> to_lowercase(p.name)
      [] key = "name" -> p.name
      [] key = "cpu" -> <<p.cpu_percent_usage>>
      [] key = "mem" -> <<p.mem_usage_bytes>>
      [] key = "mem_percent" -> <<p.mem_percent_usage>>
      [] key = "command_lower" -> to_lowercase(p.command)
      [] key = "pid" -> <<p.pid>>
      [] key = "rps" -> <<p.rps_f64>>
      [] key = "wps" -> <<p.wps_f64>>
      [] key = "tr" -> <<p.tr_f64>>
      [] key = "tw" -> <<p.tw_f64>>
      [] key = "state_lower" -> to_lowercase(p.process_state)
      [] key = "count" -> <<Len(p.group_pids)>>

\* x goes before the first element that compares Greater than it: elements
\* that compare Equal keep the order they came in.
RECURSIVE InsertStable(_, _, _, _)
InsertStable(x, sorted, key, descending) ==
    IF sorted = <<>> THEN <<x>>
    ELSE IF get_ordering(SortKey(key, Head(sorted)), SortKey(key, x), descending) = "Greater"
         THEN <<x>> \o sorted
         ELSE <<Head(sorted)>> \o InsertStable(x, Tail(sorted), key, descending)

\* Vec::sort_by with the closure |a, b| get_ordering(key(a), key(b), descending):
\* a stable sort.
RECURSIVE sort_by(_, _, _)
sort_by(vec, key, descending) ==
    IF vec = <<>> THEN <<>>
    ELSE InsertStable(vec[Len(vec)], sort_by(SubSeq(vec, 1, Len(vec) - 1), key, descending),
                      key, descending)

\* The sort key of each column of lib.rs's sort_process_data.
ColumnKey(sorting_type) ==
    CASE sorting_type = "CpuPercent" -> "cpu"
      [] sorting_type = "Mem" -> "mem"
      [] sorting_type = "MemPercent" -> "mem_percent"
      [] sorting_type = "ProcessName" -> "name_lower"
      [] sorting_type = "Command" -> "command_lower"
      [] sorting_type = "Pid" -> "pid"
      [] sorting_type = "ReadPerSecond" -> "rps"
      [] sorting_type = "WritePerSecond" -> "wps"
      [] sorting_type = "TotalRead" -> "tr"
      [] sorting_type = "TotalWrite" -> "tw"
      [] sorting_type = "State" -> "state_lower"
      [] sorting_type = "Count" -> "count"

\* lib.rs sort_process_data(to_sort_vec, proc_widget_state)
sort_process_data(to_sort_vec, proc_widget_state) ==
    LET baseline == sort_by(to_sort_vec, "name_lower", FALSE)
        sorting_type == proc_widget_state.process_sorting_type
        descending == proc_widget_state.is_process_sort_descending
    IN  CASE sorting_type = "ProcessName" ->
                IF descending THEN sort_by(baseline, "name_lower", descending) ELSE baseline
          [] sorting_type = "Pid" ->
                IF ~proc_widget_state.is_grouped THEN sort_by(baseline, "pid", descending)
                ELSE baseline
          [] sorting_type = "Count" ->
                IF proc_widget_state.is_grouped THEN sort_by(baseline, "count", descending)
                ELSE baseline
          [] OTHER -> sort_by(baseline, ColumnKey(sorting_type), descending)


(***************************************************************************)
(* Search state of a process widget (app.rs).                              *)
(***************************************************************************)
\* A regex with an unclosed group does not compile; a plain query is
\* escaped and always compiles.
is_invalid_search(ws) ==
    ws.is_searching_with_regex /\ contains(ws.search_query, str_paren)

is_blank_search(ws) == ws.search_query = <<>>

\* ProcessSearchState::is_invalid_or_blank_search
is_invalid_or_blank_search(ws) == is_blank_search(ws) \/ is_invalid_search(ws)

\* App::get_process_filter(widget_id): the matcher compiled last, if there
\* is one.  It is the current query's when that query is neither blank nor
\* invalid; otherwise it may be an earlier query's or none.
get_process_filter(ws) ==
    IF ws.compiled_query = None THEN None
    ELSE Some([query |-> ws.compiled_query[1],
               ignore_case |-> ws.is_ignoring_case,
               whole_word |-> ws.is_searching_whole_word])

\* The matcher's check(process, is_using_command): against the command line
\* or the name, case folded when ignoring case, the whole string when
\* matching whole words.
check(process_filter, process, is_using_command) ==
    LET target == IF is_using_command THEN process.command ELSE process.name
        hay == IF process_filter.ignore_case THEN to_lowercase(target) ELSE target
        needle == IF process_filter.ignore_case THEN to_lowercase(process_filter.query)
                  ELSE process_filter.query
    IN  IF process_filter.whole_word THEN hay = needle ELSE contains(hay, needle)

(***************************************************************************)
(* Filter, shape, sort, clamp (lib.rs update_final_process_list).          *)
(***************************************************************************)
\* The filter step without its test of is_invalid_or_blank_search.
FilterProcessData_NoBlankTest(single_process_data, is_tree, is_invalid_or_blank, process_filter, is_using_command) ==
    IF is_tree
    THEN [i \in 1..Len(single_process_data) |->
            IF process_filter # None
            THEN [single_process_data[i] EXCEPT !.is_disabled_entry =
                    ~check(process_filter[1], single_process_data[i], is_using_command)]
            ELSE single_process_data[i]]
    ELSE LET Passes(process) ==
                IF process_filter # None
                THEN check(process_filter[1], process, is_using_command)
                ELSE TRUE
         IN  SelectSeq(single_process_data, Passes)

\* The filter step that removes a record that does not match in tree mode too.
FilterProcessData_TreeRemoves(single_process_data, is_tree, is_invalid_or_blank, process_filter, is_using_command) ==
    LET Passes(process) ==
            IF ~is_invalid_or_blank
            THEN IF process_filter # None
                 THEN check(process_filter[1], process, is_using_command)
                 ELSE TRUE
            ELSE TRUE
    IN  SelectSeq(single_process_data, Passes)

\* lib.rs 487-520: the filter step.
FilterProcessData(single_process_data, is_tree, is_invalid_or_blank, process_filter, is_using_command) ==
    IF is_tree
    THEN [i \in 1..Len(single_process_data) |->
            IF ~is_invalid_or_blank /\ process_filter # None
            THEN [single_process_data[i] EXCEPT !.is_disabled_entry =
                    ~check(process_filter[1], single_process_data[i], is_using_command)]
            ELSE single_process_data[i]]
    ELSE LET Passes(process) ==
                IF ~is_invalid_or_blank
                THEN IF process_filter # None
                     THEN check(process_filter[1], process, is_using_command)
                     ELSE TRUE
                ELSE TRUE
         IN  SelectSeq(single_process_data, Passes)

\* The sum of a column over a list of rows.
RECURSIVE SumField(_, _)
SumField(rows, field) ==
    IF rows = <<>> THEN 0 ELSE Head(rows)[field] + SumField(Tail(rows), field)

\* The names of a list, each once, in the order of first appearance.
RECURSIVE DistinctNames(_)
DistinctNames(rows) ==
    IF rows = <<>> THEN <<>>
    ELSE LET front == DistinctNames(SubSeq(rows, 1, Len(rows) - 1))
             n == rows[Len(rows)].name
         IN  IF n \in Range(front) THEN front ELSE Append(front, n)

\* The group pids of the rows of a list, in order.
RECURSIVE ConcatGroupPids(_)
ConcatGroupPids(rows) ==
    IF rows = <<>> THEN <<>> ELSE Head(rows).group_pids \o ConcatGroupPids(Tail(rows))

\* A grouping that collects the pid of each merged row and not the pids the
\* row stands for.
group_process_data_RowPids(filtered_process_data, is_using_command) ==
    LET names == DistinctNames(filtered_process_data)
    IN  [i \in 1..Len(names) |->
            LET SameName(process) == process.name = names[i]
                members == SelectSeq(filtered_process_data, SameName)
            IN  [pid |-> members[1].pid,
                 ppid |-> None,
                 name |-> names[i],
                 command |-> names[i],
                 cpu_percent_usage |-> SumField(members, "cpu_percent_usage"),
                 mem_percent_usage |-> SumField(members, "mem_percent_usage"),
                 mem_usage_bytes |-> SumField(members, "mem_usage_bytes"),
                 rps_f64 |-> SumField(members, "rps_f64"),
                 wps_f64 |-> SumField(members, "wps_f64"),
                 tr_f64 |-> SumField(members, "tr_f64"),
                 tw_f64 |-> SumField(members, "tw_f64"),
                 process_state |-> <<>>,
                 group_pids |-> [j \in 1..Len(members) |-> members[j].pid],
                 is_disabled_entry |-> FALSE]]

\* data_conversion::group_process_data: one GroupedProcessRow per name, the
\* cpu, memory and byte columns summed, the pids that the merged rows stand
\* for collected (a converted row stands for its own pid), the first merged
\* row's pid as the row's identity.
group_process_data(filtered_process_data, is_using_command) ==
    LET names == DistinctNames(filtered_process_data)
    IN  [i \in 1..Len(names) |->
            LET SameName(process) == process.name = names[i]
                members == SelectSeq(filtered_process_data, SameName)
            IN  [pid |-> members[1].pid,
                 ppid |-> None,
                 name |-> names[i],
                 command |-> names[i],
                 cpu_percent_usage |-> SumField(members, "cpu_percent_usage"),
                 mem_percent_usage |-> SumField(members, "mem_percent_usage"),
                 mem_usage_bytes |-> SumField(members, "mem_usage_bytes"),
                 rps_f64 |-> SumField(members, "rps_f64"),
                 wps_f64 |-> SumField(members, "wps_f64"),
                 tr_f64 |-> SumField(members, "tr_f64"),
                 tw_f64 |-> SumField(members, "tw_f64"),
                 process_state |-> <<>>,
                 group_pids |-> ConcatGroupPids(members),
                 is_disabled_entry |-> FALSE]]

\* One sibling group of the tree in display order: the baseline, then the
\* column (Pid applies, tree rows are not grouped; Count does not).
SortSiblings(siblings, sorting_type, descending) ==
    sort_process_data(siblings, [process_sorting_type |-> sorting_type,
                                 is_process_sort_descending |-> descending,
                                 is_grouped |-> FALSE])

\* The subtrees of a sorted sibling group, flattened in pre-order.
RECURSIVE FlattenForest(_, _, _, _)
FlattenForest(siblings, all, sorting_type, descending) ==
    IF siblings = <<>> THEN <<>>
    ELSE LET node == Head(siblings)
             IsChild(process) == process.ppid = Some(node.pid) /\ process.pid # node.pid
             children == SortSiblings(SelectSeq(all, IsChild), sorting_type, descending)
         IN  <<node>> \o FlattenForest(children, all, sorting_type, descending)
                      \o FlattenForest(Tail(siblings), all, sorting_type, descending)

\* data_conversion::tree_process_data: the forest of the parent-pid links
\* restricted to the filtered set (a row whose parent is not in the set is
\* a root), each sibling group sorted on its own, flattened in pre-order.
tree_process_data(filtered_process_data, is_using_command, sorting_type, descending) ==
    LET pids == {filtered_process_data[i].pid : i \in 1..Len(filtered_process_data)}
        IsRoot(process) == process.ppid = None \/ process.ppid[1] \notin pids
        roots == SortSiblings(SelectSeq(filtered_process_data, IsRoot), sorting_type, descending)
    IN  FlattenForest(roots, filtered_process_data, sorting_type, descending)

\* The shape step without the grouping of the grouped mode.
ShapeProcessData_NoGrouping(filtered_process_data, ws) ==
    IF ws.is_tree_mode
    THEN tree_process_data(filtered_process_data, ws.is_using_command,
                           ws.process_sorting_type, ws.is_process_sort_descending)
    ELSE filtered_process_data

\* The shape step with the grouped mode tested before the tree mode.
ShapeProcessData_GroupedFirst(filtered_process_data, ws) ==
    IF ws.is_grouped
    THEN group_process_data(filtered_process_data, ws.is_using_command)
    ELSE IF ws.is_tree_mode
         THEN tree_process_data(filtered_process_data, ws.is_using_command,
                                ws.process_sorting_type, ws.is_process_sort_descending)
         ELSE filtered_process_data

\* lib.rs 523-534: the shape step.
ShapeProcessData(filtered_process_data, ws) ==
    IF ws.is_tree_mode
    THEN tree_process_data(filtered_process_data, ws.is_using_command,
                           ws.process_sorting_type, ws.is_process_sort_descending)
    ELSE IF ws.is_grouped
         THEN group_process_data(filtered_process_data, ws.is_using_command)
         ELSE filtered_process_data

\* The sort step without its test of is_tree_mode.
SortShapedData_AlwaysSort(shaped, ws) == sort_process_data(shaped, ws)

\* lib.rs 536-539: tree mode is sorted in tree_process_data, never here.
SortShapedData(shaped, ws) ==
    IF ~ws.is_tree_mode THEN sort_process_data(shaped, ws) ELSE shaped

\* usize::saturating_sub
saturating_sub(a, b) == IF a >= b THEN a - b ELSE 0

\* lib.rs 541-548: the clamp of the scroll state.
ClampScrollState(ws, len) ==
    IF ws.current_scroll_position >= len
    THEN [ws EXCEPT !.current_scroll_position = saturating_sub(len, 1),
                    !.previous_scroll_position = 0,
                    !.scroll_direction = "Down"]
    ELSE ws

\* The local filtered_process_data of update_final_process_list(app, widget_id).
FilteredOf(a, widget_id) ==
    LET ws == a.widget_states[widget_id]
        single == IF ~a.is_frozen THEN convert_process_data(a.data_collection)
                  ELSE a.single_process_data
    IN  FilterProcessData(single, ws.is_tree_mode, is_invalid_or_blank_search(ws),
                          get_process_filter(ws), ws.is_using_command)

\* update_final_process_list that keeps a cached list that is not empty.
update_final_process_list_KeepsCachedList(a, widget_id) ==
    IF widget_id \notin DOMAIN a.widget_states THEN a
    ELSE LET ws == a.widget_states[widget_id]
             single == IF ~a.is_frozen THEN convert_process_data(a.data_collection)
                       ELSE a.single_process_data
             finalized_process_data ==
                 IF a.finalized_process_data_map[widget_id] # <<>>
                 THEN a.finalized_process_data_map[widget_id]
                 ELSE SortShapedData(ShapeProcessData(FilteredOf(a, widget_id), ws), ws)
         IN  [a EXCEPT !.single_process_data = single,
                       !.widget_states[widget_id] = ClampScrollState(ws, Len(finalized_process_data)),
                       !.finalized_process_data_map[widget_id] = finalized_process_data]

\* update_final_process_list without its test of is_frozen.
update_final_process_list_AlwaysConverts(a, widget_id) ==
    IF widget_id \notin DOMAIN a.widget_states THEN a
    ELSE LET ws == a.widget_states[widget_id]
             single == convert_process_data(a.data_collection)
             finalized_process_data ==
                 SortShapedData(
                     ShapeProcessData(
                         FilterProcessData(single, ws.is_tree_mode,
                                           is_invalid_or_blank_search(ws),
                                           get_process_filter(ws), ws.is_using_command),
                         ws),
                     ws)
         IN  [a EXCEPT !.single_process_data = single,
                       !.widget_states[widget_id] = ClampScrollState(ws, Len(finalized_process_data)),
                       !.finalized_process_data_map[widget_id] = finalized_process_data]

\* lib.rs update_final_process_list(app, widget_id): the app it leaves.
update_final_process_list(a, widget_id) ==
    IF widget_id \notin DOMAIN a.widget_states THEN a
    ELSE LET ws == a.widget_states[widget_id]
             single == IF ~a.is_frozen THEN convert_process_data(a.data_collection)
                       ELSE a.single_process_data
             finalized_process_data == SortShapedData(ShapeProcessData(FilteredOf(a, widget_id), ws), ws)
         IN  [a EXCEPT !.single_process_data = single,
                       !.widget_states[widget_id] = ClampScrollState(ws, Len(finalized_process_data)),
                       !.finalized_process_data_map[widget_id] = finalized_process_data]

\* Any order of a set of widget ids (the keys of a HashMap).
RECURSIVE FoldWidgets(_, _)
FoldWidgets(a, widget_ids) ==
    IF widget_ids = {} THEN a
    ELSE LET widget_id == CHOOSE w \in widget_ids : TRUE
         IN  FoldWidgets(update_final_process_list(a, widget_id), widget_ids \ {widget_id})

\* update_all_process_lists that stops after the first widget.
update_all_process_lists_FirstOnly(a) ==
    IF ~a.is_frozen
    THEN update_final_process_list(a, CHOOSE w \in DOMAIN a.widget_states : TRUE)
    ELSE a

\* lib.rs update_all_process_lists(app)
update_all_process_lists(a) ==
    IF ~a.is_frozen THEN FoldWidgets(a, DOMAIN a.widget_states) ELSE a


(***************************************************************************)
(* The process list of main.rs.                                            *)
(***************************************************************************)
MainProcessSorting == {"CPU", "MEM", "NAME", "PID"}

\* Pid::to_string for the pids of the pool.
pid_to_string(pid) == IF pid < 10 THEN <<48 + pid>> ELSE <<48 + (pid \div 10), 48 + (pid % 10)>>

\* App::get_current_regex_matcher: Err when the query does not compile; the
\* regex of a blank query matches every string.
get_current_regex_matcher(m) ==
    IF contains(m.current_search_query, str_paren) THEN "Err"
    ELSE Some(m.current_search_query)

\* Regex::is_match of a query without metacharacters.
is_match(matcher, text) == contains(text, matcher[1])

\* main.rs convert_process_data, first component: the harvested processes.
main_convert_single(data_collection) ==
    [i \in 1..Len(data_collection) |->
        [pid |-> data_collection[i].pid,
         name |-> data_collection[i].name,
         cpu_usage_percent |-> data_collection[i].cpu_percent_usage,
         mem_usage_percent |-> data_collection[i].mem_percent_usage]]

\* main.rs convert_process_data, second component: one row per name.
main_convert_grouped(data_collection) ==
    LET names == DistinctNames(data_collection)
    IN  [i \in 1..Len(names) |->
            LET SameName(process) == process.name = names[i]
                members == SelectSeq(data_collection, SameName)
            IN  [pid |-> members[1].pid,
                 name |-> names[i],
                 cpu_usage |-> SumField(members, "cpu_percent_usage"),
                 mem_usage |-> SumField(members, "mem_percent_usage"),
                 group_pids |-> [j \in 1..Len(members) |-> members[j].pid]]]

\* The value a sort_by closure of main.rs's sort_process_data compares.
MainSortKey(key, p) ==
    CASE key = "name" -> p.name
      [] key = "cpu" -> <<p.cpu_usage>>
      [] key = "mem" -> <<p.mem_usage>>
      [] key = "pid" -> <<p.pid>>

RECURSIVE MainInsertStable(_, _, _, _)
MainInsertStable(x, sorted, key, descending) ==
    IF sorted = <<>> THEN <<x>>
    ELSE IF get_ordering(MainSortKey(key, Head(sorted)), MainSortKey(key, x), descending) = "Greater"
         THEN <<x>> \o sorted
         ELSE <<Head(sorted)>> \o MainInsertStable(x, Tail(sorted), key, descending)

\* Vec::sort_by on main.rs's rows.
RECURSIVE main_sort_by(_, _, _)
main_sort_by(vec, key, descending) ==
    IF vec = <<>> THEN <<>>
    ELSE MainInsertStable(vec[Len(vec)],
                          main_sort_by(SubSeq(vec, 1, Len(vec) - 1), key, descending),
                          key, descending)

\* main.rs sort_process_data(to_sort_vec, app)
main_sort_process_data(to_sort_vec, m) ==
    LET baseline == main_sort_by(to_sort_vec, "name", FALSE)
    IN  CASE m.process_sorting_type = "CPU" ->
                main_sort_by(baseline, "cpu", m.process_sorting_reverse)
          [] m.process_sorting_type = "MEM" ->
                main_sort_by(baseline, "mem", m.process_sorting_reverse)
          [] m.process_sorting_type = "NAME" ->
                main_sort_by(baseline, "name", m.process_sorting_reverse)
          [] m.process_sorting_type = "PID" ->
                IF ~m.is_grouped THEN main_sort_by(baseline, "pid", m.process_sorting_reverse)
                ELSE baseline

\* main.rs 353-389: the filter of update_final_process_list.
main_filtered_process_data(m) ==
    LET matcher == get_current_regex_matcher(m)
    IN  IF m.is_grouped
        THEN LET Passes(process) ==
                    IF matcher # "Err" THEN is_match(matcher, process.name) ELSE TRUE
             IN  SelectSeq(m.grouped_process_data, Passes)
        ELSE LET Passes(process) ==
                    IF matcher # "Err"
                    THEN IF m.is_searching_with_pid
                         THEN is_match(matcher, pid_to_string(process.pid))
                         ELSE is_match(matcher, process.name)
                    ELSE TRUE
                 kept == SelectSeq(m.process_data, Passes)
             IN  [i \in 1..Len(kept) |->
                    [pid |-> kept[i].pid,
                     name |-> kept[i].name,
                     cpu_usage |-> kept[i].cpu_usage_percent,
                     mem_usage |-> kept[i].mem_usage_percent,
                     group_pids |-> <<kept[i].pid>>]]

\* main.rs update_final_process_list(app): the app it leaves.
main_update_final_process_list(m) ==
    [m EXCEPT !.finalized_process_data =
                 main_sort_process_data(main_filtered_process_data(m), m)]

(***************************************************************************)
(* State.                                                                  *)
(***************************************************************************)
VARIABLES
    program,                \* which program of the repository runs: "lib.rs" or "main.rs"
    op,                     \* the operation performed last
    app,                    \* lib.rs: the App the handlers work on
    filtered_process_data,  \* lib.rs: the local of the last update_final_process_list
    main_app,               \* main.rs: the app of main
    main_filtered,          \* main.rs: the local of the last update_final_process_list
    pc,                     \* where the main thread is
    terminal,               \* the modes of the terminal
    exit_result,            \* what the main thread ended with
    recv,                   \* the snapshot of the Update the loop received last
    event_channel,          \* the messages in flight on the event channel (tx -> rx)
    reset_channel,          \* the Reset messages in flight on the control channel (rtx -> rrx)
    harvest_thread,         \* the thread that collects and sends snapshots
    clean_thread,           \* main.rs: the thread of the cleaning loop
    input_thread,           \* the thread that reads the keyboard and the mouse
    consumer,               \* the receiving end of the event channel and what it merged
    last_event,             \* the event a handler was called with last
    returned,               \* what the handler called last returned: leave the loop or not
    current_time,           \* Instant::now(), in milliseconds since the start
    timed_data_vec,         \* the retained history: the collection time of each sample
    input_log,              \* what the input thread did with each event it read
    update_rate_in_milliseconds  \* main.rs: the local of main, the parsed refresh interval

vars == <<program, op, app, filtered_process_data, main_app, main_filtered,
          pc, terminal, exit_result, recv,
          event_channel, reset_channel, harvest_thread, clean_thread, input_thread, consumer,
          last_event, returned, current_time, timed_data_vec, input_log,
          update_rate_in_milliseconds>>
lib_vars == <<app, filtered_process_data>>
main_vars == <<main_app, main_filtered>>
loop_vars == <<pc, terminal, exit_result, recv>>
thread_vars == <<event_channel, reset_channel, harvest_thread, clean_thread, input_thread, consumer>>
call_vars == <<last_event, returned>>
time_vars == <<current_time, timed_data_vec, input_log, update_rate_in_milliseconds>>

\* The terminal as the shell leaves it.
CookedTerminal ==
    [raw_mode |-> FALSE, alternate_screen |-> FALSE, mouse_capture |-> FALSE,
     cursor_hidden |-> FALSE]

\* The terminal as a set-up leaves it.
RawTerminal ==
    [raw_mode |-> TRUE, alternate_screen |-> TRUE, mouse_capture |-> TRUE,
     cursor_hidden |-> TRUE]

\* No main thread: the functions are called directly.
NoLoop ==
    /\ pc = "call"
    /\ terminal = CookedTerminal
    /\ exit_result = "running"
    /\ recv = None

\* No threads and no channels.
NoThreads ==
    /\ event_channel = <<>>
    /\ reset_channel = 0
    /\ harvest_thread = [pc |-> "absent", cleared |-> 0, data |-> None]
    /\ clean_thread = [pc |-> "absent"]
    /\ input_thread = [pc |-> "absent"]
    /\ consumer = [alive |-> FALSE, resets_sent |-> 0, merged |-> None]

\* No handler was called yet.
NoCall ==
    /\ last_event = None
    /\ returned = FALSE

\* The clock at the start, no sample retained, no event read, the refresh
\* interval of a start without --rate.
NoTime ==
    /\ current_time = 0
    /\ timed_data_vec = <<>>
    /\ input_log = <<>>
    /\ update_rate_in_milliseconds = Some(DEFAULT_REFRESH_RATE_IN_MILLISECONDS)

WidgetIds == {1, 2}

SearchQueries == {<<>>, str_a, str_paren}

\* ProcWidgetState as App::new builds it.
DefaultWidgetState ==
    [search_query |-> <<>>,
     compiled_query |-> None,
     is_ignoring_case |-> TRUE,
     is_searching_whole_word |-> FALSE,
     is_searching_with_regex |-> FALSE,
     is_using_command |-> FALSE,
     is_grouped |-> FALSE,
     is_tree_mode |-> FALSE,
     process_sorting_type |-> "CpuPercent",
     is_process_sort_descending |-> TRUE,
     current_scroll_position |-> 0,
     previous_scroll_position |-> 0,
     scroll_direction |-> "Down"]

\* The matchers a widget may hold for a query: the query's own when it
\* compiles and is not blank, else none or one left by an earlier query.
CompiledQueries(q, re) ==
    IF q # <<>> /\ ~(re /\ contains(q, str_paren)) THEN {Some(q)} ELSE {None, Some(str_a)}

\* Widget states that differ from the default in the search settings and the mode.
SearchWidgetStates ==
    UNION {{[DefaultWidgetState EXCEPT !.search_query = q, !.compiled_query = cq,
                                       !.is_ignoring_case = ic,
                                       !.is_searching_whole_word = ww,
                                       !.is_searching_with_regex = re,
                                       !.is_using_command = uc, !.is_grouped = g,
                                       !.is_tree_mode = t] :
              cq \in CompiledQueries(q, re), ic \in BOOLEAN, ww \in BOOLEAN,
              uc \in BOOLEAN, g \in BOOLEAN, t \in BOOLEAN} :
           q \in SearchQueries, re \in BOOLEAN}

\* Widget states that differ from the default in the sort settings, the mode,
\* a query and the scroll state.
SortWidgetStates ==
    {[DefaultWidgetState EXCEPT !.search_query = q,
                                !.compiled_query = IF q = <<>> THEN None ELSE Some(q),
                                !.is_grouped = g, !.is_tree_mode = t,
                                !.process_sorting_type = st, !.is_process_sort_descending = d,
                                !.current_scroll_position = pos,
                                !.scroll_direction = IF pos = 0 THEN "Down" ELSE "Up"] :
        q \in {<<>>, str_a}, g \in BOOLEAN, t \in BOOLEAN, st \in ProcessSorting,
        d \in BOOLEAN, pos \in 0..(MaxLen - 1)}

NewApp(widget_states) ==
    [is_frozen |-> FALSE,
     data_collection |-> <<>>,
     single_process_data |-> <<>>,
     widget_states |-> widget_states,
     finalized_process_data_map |-> [w \in DOMAIN widget_states |-> <<>>],
     force_update_all |-> FALSE,
     force_update |-> None,
     current_widget |-> 1,
     is_in_search_widget |-> FALSE,
     disable_click |-> FALSE]

\* main.rs: the app as App::new builds it.
NewMainApp ==
    [is_frozen |-> FALSE,
     data_collection |-> <<>>,
     process_data |-> <<>>,
     grouped_process_data |-> <<>>,
     finalized_process_data |-> <<>>,
     process_sorting_type |-> "CPU",
     process_sorting_reverse |-> TRUE,
     is_grouped |-> FALSE,
     current_search_query |-> <<>>,
     is_searching_with_pid |-> FALSE,
     is_in_search_widget |-> FALSE,
     update_process_gui |-> FALSE,
     currently_selected_process_position |-> 0,
     update_rate_in_milliseconds |-> as_u64(DEFAULT_REFRESH_RATE_IN_MILLISECONDS)]

(***************************************************************************)
(* The engine on drawn inputs: a harvested list and a widget state.        *)
(***************************************************************************)
InitEngineLib ==
    /\ program = "lib.rs"
    /\ op = "init"
    /\ \E ws \in SearchWidgetStates \cup SortWidgetStates, data \in ProcessLists :
          app = [NewApp([w \in {1} |-> ws]) EXCEPT !.data_collection = data]
    /\ filtered_process_data = <<>>
    /\ main_app = NewMainApp
    /\ main_filtered = <<>>
    /\ NoLoop /\ NoThreads /\ NoCall /\ NoTime

\* main.rs: the app after the conversion of a harvested list (main.rs 308-310),
\* for every setting of the sort, the grouping, the search and the selection.
InitEngineMain ==
    /\ program = "main.rs"
    /\ op = "init"
    /\ app = NewApp([w \in {1} |-> DefaultWidgetState])
    /\ filtered_process_data = <<>>
    /\ \E data \in ProcessLists, st \in MainProcessSorting, rev \in BOOLEAN, g \in BOOLEAN,
          q \in SearchQueries, wp \in BOOLEAN, pos \in 0..(MaxLen - 1) :
          main_app = [NewMainApp EXCEPT !.data_collection = data,
                                        !.process_data = main_convert_single(data),
                                        !.grouped_process_data = main_convert_grouped(data),
                                        !.process_sorting_type = st,
                                        !.process_sorting_reverse = rev,
                                        !.is_grouped = g,
                                        !.current_search_query = q,
                                        !.is_searching_with_pid = wp,
                                        !.currently_selected_process_position = pos]
    /\ main_filtered = <<>>
    /\ NoLoop /\ NoThreads /\ NoCall /\ NoTime

\* A call of lib.rs update_final_process_list(app, widget_id).
UpdateFinalProcessList(widget_id) ==
    /\ program = "lib.rs"
    /\ op' = "update_final_process_list"
    /\ app' = update_final_process_list(app, widget_id)
    /\ filtered_process_data' = FilteredOf(app, widget_id)
    /\ UNCHANGED <<program, main_vars, loop_vars, thread_vars, call_vars, time_vars>>

\* A call of main.rs update_final_process_list(app).
MainUpdateFinalProcessList ==
    /\ program = "main.rs"
    /\ op' = "update_final_process_list"
    /\ main_app' = main_update_final_process_list(main_app)
    /\ main_filtered' = main_filtered_process_data(main_app)
    /\ UNCHANGED <<program, lib_vars, loop_vars, thread_vars, call_vars, time_vars>>

InitEngine == InitEngineLib \/ InitEngineMain

NextEngine ==
    \/ \E widget_id \in DOMAIN app.widget_states : UpdateFinalProcessList(widget_id)
    \/ MainUpdateFinalProcessList

SpecEngine == InitEngine /\ [][NextEngine]_vars


(***************************************************************************)
(* Properties of the engine.                                               *)
(***************************************************************************)
Recomputed(prog) == program = prog /\ op = "update_final_process_list"

Pids(rows) == {rows[i].pid : i \in 1..Len(rows)}

\* The sum of a column over the rows of a name.
RECURSIVE SumOfName(_, _, _)
SumOfName(rows, name, field) ==
    IF rows = <<>> THEN 0
    ELSE (IF Head(rows).name = name THEN Head(rows)[field] ELSE 0)
         + SumOfName(Tail(rows), name, field)

\* C6: in non-tree mode a blank or invalid query filters nothing out: the
\* filtered list of lib.rs is the converted input, record for record, and
\* the filtered list of main.rs holds a row for every input row and no other.
C6_BlankQueryPassesAll ==
    /\ (Recomputed("lib.rs") /\ ~app.widget_states[1].is_tree_mode
            /\ is_invalid_or_blank_search(app.widget_states[1]))
        => filtered_process_data = app.single_process_data
    /\ (Recomputed("main.rs")
            /\ (main_app.current_search_query = <<>>
                \/ get_current_regex_matcher(main_app) = "Err"))
        => IF main_app.is_grouped
           THEN main_filtered = main_app.grouped_process_data
           ELSE /\ Len(main_filtered) = Len(main_app.process_data)
                /\ \A i \in 1..Len(main_filtered) :
                      /\ main_filtered[i].pid = main_app.process_data[i].pid
                      /\ main_filtered[i].name = main_app.process_data[i].name

\* C6 witness: a recompute in non-tree mode with a blank query, a matcher
\* left by an earlier query and an input row that matcher would reject.
C6_Witness ==
    /\ Recomputed("lib.rs")
    /\ ~app.widget_states[1].is_tree_mode
    /\ is_blank_search(app.widget_states[1])
    /\ get_process_filter(app.widget_states[1]) # None
    /\ \E i \in 1..Len(app.single_process_data) :
          ~check(get_process_filter(app.widget_states[1])[1], app.single_process_data[i],
                 app.widget_states[1].is_using_command)
    /\ Len(filtered_process_data) >= 2

\* The rows are in the order of a column and a direction, and rows that
\* are equal in the column are in ascending case-insensitive name order.
OrderedWithNameTies(rows, Key(_), descending) ==
    \A i, j \in 1..Len(rows) :
        i < j =>
            LET o == get_ordering(Key(rows[i]), Key(rows[j]), descending)
            IN  /\ o # "Greater"
                /\ o = "Equal" =>
                      partial_cmp(to_lowercase(rows[i].name), to_lowercase(rows[j].name))
                          # "Greater"

\* The column applies in the mode: Pid when not grouped, Count when grouped.
ColumnApplies(ws) ==
    /\ ws.process_sorting_type = "Pid" => ~ws.is_grouped
    /\ ws.process_sorting_type = "Count" => ws.is_grouped

\* lib.rs: the sorted list is ordered by its column, ties in name order.
SortedLib ==
    (Recomputed("lib.rs") /\ ~app.widget_states[1].is_tree_mode
        /\ ColumnApplies(app.widget_states[1]))
    => LET ws == app.widget_states[1]
           Key(p) == SortKey(ColumnKey(ws.process_sorting_type), p)
       IN  OrderedWithNameTies(app.finalized_process_data_map[1], Key,
                               ws.is_process_sort_descending)

\* main.rs: the sorted list is ordered by its column, ties in name order.
SortedMain ==
    (Recomputed("main.rs")
        /\ (main_app.process_sorting_type = "PID" => ~main_app.is_grouped))
    => LET Key(p) == MainSortKey(CASE main_app.process_sorting_type = "CPU" -> "cpu"
                                   [] main_app.process_sorting_type = "MEM" -> "mem"
                                   [] main_app.process_sorting_type = "NAME" -> "name"
                                   [] main_app.process_sorting_type = "PID" -> "pid", p)
       IN  OrderedWithNameTies(main_app.finalized_process_data, Key,
                               main_app.process_sorting_reverse)

\* C7: after sort_process_data with a column that applies, the rows are in
\* the order of the column and direction, and rows equal in the column are
\* in ascending case-insensitive name order (lib.rs and main.rs).
C7_SortedWithNameTies == SortedLib /\ SortedMain

\* C8: in grouped non-tree mode the finalized list has one row per name of
\* the filtered records, with the sums of that name's cpu, memory and byte
\* rates and exactly that name's pids; pids 1 and 2 of name "a" with cpu 10
\* and 5 give one row of cpu 15 and pids {1, 2}.
C8_GroupedRows ==
    (Recomputed("lib.rs") /\ app.widget_states[1].is_grouped
        /\ ~app.widget_states[1].is_tree_mode)
    => LET rows == app.finalized_process_data_map[1]
           f == filtered_process_data
       IN  /\ \A i, j \in 1..Len(rows) : rows[i].name = rows[j].name => i = j
           /\ {rows[i].name : i \in 1..Len(rows)} = {f[k].name : k \in 1..Len(f)}
           /\ \A i \in 1..Len(rows) :
                 /\ rows[i].cpu_percent_usage = SumOfName(f, rows[i].name, "cpu_percent_usage")
                 /\ rows[i].mem_percent_usage = SumOfName(f, rows[i].name, "mem_percent_usage")
                 /\ rows[i].mem_usage_bytes = SumOfName(f, rows[i].name, "mem_usage_bytes")
                 /\ rows[i].rps_f64 = SumOfName(f, rows[i].name, "rps_f64")
                 /\ rows[i].wps_f64 = SumOfName(f, rows[i].name, "wps_f64")
                 /\ Range(rows[i].group_pids)
                       = {f[k].pid : k \in {k \in 1..Len(f) : f[k].name = rows[i].name}}
                 /\ Len(rows[i].group_pids)
                       = Cardinality({k \in 1..Len(f) : f[k].name = rows[i].name})
           /\ (Pids(f) = {1, 2} /\ app.widget_states[1].process_sorting_type = "CpuPercent"
                  /\ app.widget_states[1].is_process_sort_descending)
              => /\ Len(rows) = 1
                 /\ rows[1].name = str_a
                 /\ rows[1].cpu_percent_usage = 15
                 /\ Range(rows[1].group_pids) = {1, 2}

\* C8 witness: the scenario, and a list of two names of which one is shared.
C8_Witness ==
    /\ Recomputed("lib.rs")
    /\ app.widget_states[1].is_grouped /\ ~app.widget_states[1].is_tree_mode
    /\ app.widget_states[1].process_sorting_type = "CpuPercent"
    /\ app.widget_states[1].is_process_sort_descending
    /\ Pids(filtered_process_data) = {1, 2}
    /\ Len(app.finalized_process_data_map[1]) = 1

\* The aggregate rows of two grouped lists agree: names, sums, pid sets.
SameAggregateRows(g, h) ==
    /\ Len(g) = Len(h)
    /\ \A i \in 1..Len(g) :
          /\ g[i].name = h[i].name
          /\ g[i].cpu_percent_usage = h[i].cpu_percent_usage
          /\ g[i].mem_percent_usage = h[i].mem_percent_usage
          /\ g[i].mem_usage_bytes = h[i].mem_usage_bytes
          /\ g[i].rps_f64 = h[i].rps_f64
          /\ g[i].wps_f64 = h[i].wps_f64
          /\ Range(g[i].group_pids) = Range(h[i].group_pids)

C10_ParentBeforeChild ==
    (Recomputed("lib.rs") /\ app.widget_states[1].is_tree_mode)
    => LET rows == app.finalized_process_data_map[1]
       IN  \A i \in 1..Len(rows) :
              (rows[i].ppid # None /\ rows[i].ppid[1] \in Pids(filtered_process_data))
              => \E j \in 1..(i - 1) : rows[j].pid = rows[i].ppid[1]

\* C10 witness: a tree of three levels whose deepest row has the largest
\* cpu, sorted by cpu descending.
C10_Witness ==
    /\ Recomputed("lib.rs")
    /\ app.widget_states[1].is_tree_mode
    /\ app.widget_states[1].process_sorting_type = "CpuPercent"
    /\ app.widget_states[1].is_process_sort_descending
    /\ Len(app.finalized_process_data_map[1]) = 3
    /\ app.finalized_process_data_map[1][1].pid = 3
    /\ app.finalized_process_data_map[1][2].pid = 1
    /\ app.finalized_process_data_map[1][3].pid = 2


\* C25: a recompute of lib.rs run on the app that a recompute has left
\* gives the same app again, the finalized list and the scroll state
\* included; and the app it leaves is the same whatever list the widget had
\* cached before and whatever converted data were kept from an earlier
\* recompute (the app is not frozen here: the merged data are converted anew).
C25_RecomputeIsPure ==
    program = "lib.rs"
    => \A w \in DOMAIN app.widget_states :
          LET once == update_final_process_list(app, w)
              twice == update_final_process_list(once, w)
              rows == convert_process_data(app.data_collection)
              stale == SubSeq(rows, 1, Len(rows) - 1)
          IN  /\ twice = once
              /\ update_final_process_list(
                     [app EXCEPT !.finalized_process_data_map[w] = stale,
                                 !.single_process_data =
                                       IF app.is_frozen THEN @ ELSE stale], w) = once

\* C25 witness: a recompute has made a grouped list of two rows out of
\* three processes and has clamped a scroll position that was beyond it.
C25_Witness ==
    /\ Recomputed("lib.rs")
    /\ app.widget_states[1].is_grouped /\ ~app.widget_states[1].is_tree_mode
    /\ Len(app.data_collection) = 3
    /\ Len(app.finalized_process_data_map[1]) = 2
    /\ app.widget_states[1].current_scroll_position = 1
    /\ app.widget_states[1].scroll_direction = "Down"
    /\ update_final_process_list(app, 1) = app

\* C26: with tree mode set, grouped mode set or not, the shape step builds
\* the tree and merges nothing: the list is the tree of the filtered rows,
\* one row per filtered row, each standing for its own pid; with grouped mode
\* alone the list has one row per name; with neither the list is made of
\* the filtered rows themselves.
C26_TreeBeforeGrouped ==
    Recomputed("lib.rs")
    => LET ws == app.widget_states[1]
           rows == app.finalized_process_data_map[1]
           f == filtered_process_data
       IN  /\ ws.is_tree_mode
                => /\ rows = tree_process_data(f, ws.is_using_command, ws.process_sorting_type,
                                               ws.is_process_sort_descending)
                   /\ Len(rows) = Len(f) /\ Pids(rows) = Pids(f)
                   /\ \A i \in 1..Len(rows) : rows[i].group_pids = <<rows[i].pid>>
           /\ (~ws.is_tree_mode /\ ws.is_grouped)
                => /\ rows = sort_process_data(group_process_data(f, ws.is_using_command), ws)
                   /\ \A i, j \in 1..Len(rows) : rows[i].name = rows[j].name => i = j
                   /\ {rows[i].name : i \in 1..Len(rows)} = {f[k].name : k \in 1..Len(f)}
           /\ (~ws.is_tree_mode /\ ~ws.is_grouped)
                => /\ Len(rows) = Len(f)
                   /\ Range(rows) = Range(f)

\* C26 witness: tree mode and grouped mode are both set and the list has
\* the two processes of one name as two rows, the parent first.
C26_Witness ==
    /\ Recomputed("lib.rs")
    /\ app.widget_states[1].is_tree_mode /\ app.widget_states[1].is_grouped
    /\ Len(app.finalized_process_data_map[1]) = 2
    /\ app.finalized_process_data_map[1][1].pid = 1
    /\ app.finalized_process_data_map[1][2].pid = 2
    /\ app.finalized_process_data_map[1][1].name = app.finalized_process_data_map[1][2].name

\* The matcher of the widget's present query, as the search settings make it.
QueryMatcher(ws) ==
    [query |-> ws.search_query, ignore_case |-> ws.is_ignoring_case,
     whole_word |-> ws.is_searching_whole_word]

\* C17: with a query that is neither blank nor invalid, the filter step of
\* lib.rs in tree mode keeps every input record, in place, and marks as
\* disabled exactly the records that do not match; in non-tree mode the
\* filtered list is the matching records, in the input order, and no other.
C17_TreeDisablesOthersRemove ==
    (Recomputed("lib.rs") /\ ~is_invalid_or_blank_search(app.widget_states[1]))
    => LET ws == app.widget_states[1]
           single == app.single_process_data
           Matches(process) == check(QueryMatcher(ws), process, ws.is_using_command)
       IN  IF ws.is_tree_mode
           THEN /\ Len(filtered_process_data) = Len(single)
                /\ \A i \in 1..Len(single) :
                      /\ filtered_process_data[i].pid = single[i].pid
                      /\ filtered_process_data[i].is_disabled_entry = ~Matches(single[i])
           ELSE /\ Pids(filtered_process_data) =
                      {single[i].pid : i \in {j \in 1..Len(single) : Matches(single[j])}}
                /\ \A i \in 1..Len(filtered_process_data) :
                      /\ Matches(filtered_process_data[i])
                      /\ ~filtered_process_data[i].is_disabled_entry
                /\ \A i, j \in 1..Len(filtered_process_data) :
                      i # j => filtered_process_data[i].pid # filtered_process_data[j].pid

\* C17 witness: a recompute in tree mode with the query "a" on three
\* records of which one does not match: it is kept, and disabled.
C17_Witness ==
    /\ Recomputed("lib.rs")
    /\ app.widget_states[1].is_tree_mode
    /\ app.widget_states[1].search_query = str_a
    /\ Len(filtered_process_data) = 3
    /\ \E i, j \in 1..3 : /\ filtered_process_data[i].is_disabled_entry
                          /\ ~filtered_process_data[j].is_disabled_entry

\* The rows are in ascending case-insensitive name order.
AscendingByLowerName(rows) ==
    \A i, j \in 1..Len(rows) :
        i < j => partial_cmp(to_lowercase(rows[i].name), to_lowercase(rows[j].name)) # "Greater"

\* lib.rs: Pid on a grouped list and Count on a list that is not grouped
\* leave the baseline order, whatever the direction.
WrongModeNoOpLib ==
    (Recomputed("lib.rs") /\ ~app.widget_states[1].is_tree_mode
        /\ ~ColumnApplies(app.widget_states[1]))
    => /\ AscendingByLowerName(app.finalized_process_data_map[1])
       /\ app.finalized_process_data_map[1] =
             sort_by(ShapeProcessData(filtered_process_data, app.widget_states[1]),
                     "name_lower", FALSE)

\* main.rs: PID on a grouped list leaves the baseline order, whatever the direction.
WrongModeNoOpMain ==
    (Recomputed("main.rs") /\ main_app.process_sorting_type = "PID" /\ main_app.is_grouped)
    => AscendingByLowerName(main_app.finalized_process_data)

\* C18: a sort column applied in the wrong mode (Pid while grouped, Count
\* while not grouped) leaves the list in the baseline order, ascending by
\* case-insensitive name, whatever the sort direction (lib.rs and main.rs).
C18_WrongModeSortIsNoOp == WrongModeNoOpLib /\ WrongModeNoOpMain

\* lib.rs: a grouped list of two rows under a descending Pid sort is in
\* name order and not in descending pid order.
WrongModeLibCase ==
    /\ Recomputed("lib.rs")
    /\ ~app.widget_states[1].is_tree_mode /\ app.widget_states[1].is_grouped
    /\ app.widget_states[1].process_sorting_type = "Pid"
    /\ app.widget_states[1].is_process_sort_descending
    /\ Len(app.finalized_process_data_map[1]) = 2
    /\ app.finalized_process_data_map[1][1].pid < app.finalized_process_data_map[1][2].pid


(***************************************************************************)
(* The terminal: setup, cleanup, hooks.                                    *)
(***************************************************************************)
\* The step of a cleanup that returns an error, if one does.
CleanupFailures ==
    {"none", "disable_raw_mode", "DisableMouseCapture", "LeaveAlternateScreen", "show_cursor"}

\* main.rs cleanup(terminal): each step returns early on an error.
cleanup(t, failure) ==
    IF failure = "disable_raw_mode" THEN [terminal |-> t, result |-> "Err"]
    ELSE LET t1 == [t EXCEPT !.raw_mode = FALSE]
         IN  IF failure = "DisableMouseCapture" THEN [terminal |-> t1, result |-> "Err"]
             ELSE LET t2 == [t1 EXCEPT !.mouse_capture = FALSE]
                  IN  IF failure = "LeaveAlternateScreen" THEN [terminal |-> t2, result |-> "Err"]
                      ELSE LET t3 == [t2 EXCEPT !.alternate_screen = FALSE]
                           IN  IF failure = "show_cursor" THEN [terminal |-> t3, result |-> "Err"]
                               ELSE [terminal |-> [t3 EXCEPT !.cursor_hidden = FALSE],
                                     result |-> "Ok"]

\* lib.rs cleanup_terminal(terminal): the same steps, the two screen commands
\* queued in one execute!.
cleanup_terminal(t, failure) == cleanup(t, failure)

\* lib.rs panic_hook(panic_info): raw mode off, mouse capture off, the
\* alternate screen left; the cursor is not touched.
panic_hook(t) ==
    [t EXCEPT !.raw_mode = FALSE, !.mouse_capture = FALSE, !.alternate_screen = FALSE]

\* lib.rs termination_hook(): as panic_hook, without the report.
termination_hook(t) ==
    [t EXCEPT !.raw_mode = FALSE, !.mouse_capture = FALSE, !.alternate_screen = FALSE]

\* The Terminal value goes out of scope: its destructor tries to show a
\* cursor it has hidden, and ignores a failure.
drop_terminal(t, shown) == [t EXCEPT !.cursor_hidden = @ /\ ~shown]

(***************************************************************************)
(* Events.                                                                 *)
(***************************************************************************)
\* Longest search query typed into the search box of main.rs.
MaxQueryLen == 1

ascii == [a |-> 97, c |-> 99, f |-> 102, p |-> 112, q |-> 113, r |-> 114]

Char(c) == <<"Char", c>>
Key(k) == <<k, 0>>
KeyEvent(code, modifiers) == [code |-> code, modifiers |-> modifiers]
is_empty(modifiers) == modifiers = {}

\* The key events the loop is driven with: bound and unbound ones.
KeyEvents ==
    {KeyEvent(Char(ascii.q), {}), KeyEvent(Char(ascii.f), {}), KeyEvent(Char(ascii.c), {}),
     KeyEvent(Char(ascii.p), {}),
     KeyEvent(Key("Tab"), {}), KeyEvent(Key("Esc"), {}),
     KeyEvent(Key("Down"), {}), KeyEvent(Key("Up"), {}),
     KeyEvent(Char(ascii.c), {"CONTROL"}), KeyEvent(Char(ascii.f), {"CONTROL"}),
     KeyEvent(Char(ascii.r), {"CONTROL"}),
     KeyEvent(Key("Left"), {"CONTROL", "SHIFT"}), KeyEvent(Char(ascii.c), {"ALT"})}

\* The key events the handlers of lib.rs are driven with.
LibKeyEvents ==
    {KeyEvent(Char(ascii.q), {}), KeyEvent(Char(ascii.f), {}),
     KeyEvent(Key("Tab"), {}), KeyEvent(Key("Down"), {}),
     KeyEvent(Char(ascii.c), {"CONTROL"}), KeyEvent(Char(ascii.r), {"CONTROL"}),
     KeyEvent(Key("Right"), {"CONTROL"}), KeyEvent(Key("Left"), {"SHIFT"}),
     KeyEvent(Key("Left"), {"CONTROL", "SHIFT"}), KeyEvent(Char(ascii.c), {"ALT"})}

MouseEvent(kind, button, x) == [kind |-> kind, button |-> button, x |-> x]

\* The mouse events the loop is driven with; x names the widget under the pointer.
MouseEvents ==
    {MouseEvent("ScrollUp", "None", 0), MouseEvent("ScrollDown", "None", 0),
     MouseEvent("Down", "Left", 2), MouseEvent("Down", "Right", 2),
     MouseEvent("Up", "Left", 2)}

\* The mouse events the handlers of lib.rs are driven with.
LibMouseEvents ==
    {MouseEvent("ScrollDown", "None", 0), MouseEvent("Down", "Left", 2),
     MouseEvent("Down", "Right", 2), MouseEvent("Up", "Left", 2)}

\* The process with a pid of the pool.
Proc(pid) == CHOOSE process \in ProcessPool : process.pid = pid

\* The process lists of the snapshots the harvest thread sends.
Snapshots == {<<Proc(3)>>, <<Proc(1), Proc(2), Proc(3)>>}

(***************************************************************************)
(* main.rs: the methods of the app that the event loop calls (app.rs).     *)
(***************************************************************************)
main_increment_position_count(m) ==
    IF m.currently_selected_process_position + 1 < Len(m.finalized_process_data)
    THEN [m EXCEPT !.currently_selected_process_position = @ + 1]
    ELSE m

main_decrement_position_count(m) ==
    IF m.currently_selected_process_position > 0
    THEN [m EXCEPT !.currently_selected_process_position = @ - 1]
    ELSE m

main_on_down_key(m) == IF m.is_in_search_widget THEN m ELSE main_increment_position_count(m)

main_on_up_key(m) == IF m.is_in_search_widget THEN m ELSE main_decrement_position_count(m)

main_skip_to_first(m) ==
    IF m.is_in_search_widget THEN m ELSE [m EXCEPT !.currently_selected_process_position = 0]

main_skip_to_last(m) ==
    IF m.is_in_search_widget THEN m
    ELSE [m EXCEPT !.currently_selected_process_position =
                        saturating_sub(Len(m.finalized_process_data), 1)]

main_toggle_grouping(m) ==
    IF m.is_in_search_widget THEN m
    ELSE [m EXCEPT !.is_grouped = ~@, !.update_process_gui = TRUE]

\* A sort shortcut: the same column again reverses the direction.
main_set_sorting(m, sorting_type, reverse) ==
    [m EXCEPT !.process_sorting_type = sorting_type,
              !.process_sorting_reverse = IF m.process_sorting_type = sorting_type
                                          THEN ~m.process_sorting_reverse ELSE reverse,
              !.update_process_gui = TRUE,
              !.currently_selected_process_position = 0]

\* A character goes to the search box when it has the focus, else it is a shortcut.
main_on_char_key(m, character) ==
    IF m.is_in_search_widget
    THEN [m EXCEPT !.current_search_query = Append(@, character), !.update_process_gui = TRUE]
    ELSE CASE character = ascii.f -> [m EXCEPT !.is_frozen = ~@]
           [] character = ascii.c -> main_set_sorting(m, "CPU", TRUE)
           [] character = ascii.p -> IF m.is_grouped THEN m ELSE main_set_sorting(m, "PID", FALSE)
           [] OTHER -> m

main_on_backspace(m) ==
    IF m.is_in_search_widget /\ m.current_search_query # <<>>
    THEN [m EXCEPT !.current_search_query = SubSeq(@, 1, Len(@) - 1),
                   !.update_process_gui = TRUE]
    ELSE m

main_on_esc(m) == [m EXCEPT !.is_in_search_widget = FALSE]

main_enable_searching(m) == [m EXCEPT !.is_in_search_widget = TRUE]

main_search_with_pid(m) ==
    IF m.is_in_search_widget
    THEN [m EXCEPT !.is_searching_with_pid = TRUE, !.update_process_gui = TRUE] ELSE m

main_search_with_name(m) ==
    IF m.is_in_search_widget
    THEN [m EXCEPT !.is_searching_with_pid = FALSE, !.update_process_gui = TRUE] ELSE m

\* App::reset: the search and the retained data are cleared.
main_reset(m) ==
    [m EXCEPT !.is_in_search_widget = FALSE, !.current_search_query = <<>>,
              !.is_searching_with_pid = FALSE, !.data_collection = <<>>]

\* DataCollection::eat_data: the latest process harvest replaces the one before.
eat_data(data_collection, data) == data

(***************************************************************************)
(* The retained history (app::data_farmer).                                *)
(***************************************************************************)
\* Most samples in the retained history.
MaxHistory == 2
\* Most steps of the clock.
MaxTicks == 4

\* constants::STALE_MAX_MILLISECONDS: the retention window.
STALE_MAX_MILLISECONDS == 60000

\* DataCollection::eat_data, the time series: a sample of the snapshot's
\* collection time goes to the end of the history.
eat_timed_data(timed, collected_at) == Append(timed, collected_at)

\* DataCollection::clean_data(max_time_millis): the samples at the front of
\* the history that are older than the window are drained.
RECURSIVE clean_data(_, _, _)
clean_data(timed, now, max_time_millis) ==
    IF timed = <<>> THEN <<>>
    ELSE IF now - Head(timed) > max_time_millis
         THEN clean_data(Tail(timed), now, max_time_millis)
         ELSE timed

\* The collection times a snapshot received now may carry: not after now,
\* not before the sample merged last, at most one step of the clock old.
CollectionTimes(timed, now) ==
    {t \in {now - 20000, now} :
        t >= 0 /\ (timed # <<>> => t >= timed[Len(timed)])}

(***************************************************************************)
(* main.rs: the arms of the event loop.                                    *)
(***************************************************************************)
\* main.rs 218-270: the KeyInput arm; brk says that the loop is left.
main_key_input(m, event, reset_ok) ==
    LET code == event.code
        handled ==
            IF is_empty(event.modifiers)
            THEN IF code = Char(ascii.q) /\ ~m.is_in_search_widget
                 THEN [app |-> m, brk |-> TRUE, reset_sent |-> FALSE]
                 ELSE [app |-> CASE code = Key("End") -> main_skip_to_last(m)
                                 [] code = Key("Home") -> main_skip_to_first(m)
                                 [] code = Key("Up") -> main_on_up_key(m)
                                 [] code = Key("Down") -> main_on_down_key(m)
                                 [] code[1] = "Char" -> main_on_char_key(m, code[2])
                                 [] code = Key("Esc") -> main_on_esc(m)
                                 [] code = Key("Tab") -> main_toggle_grouping(m)
                                 [] code = Key("Backspace") -> main_on_backspace(m)
                                 [] OTHER -> m,
                       brk |-> FALSE, reset_sent |-> FALSE]
            ELSE IF event.modifiers = {"CONTROL"}
                 THEN IF code = Char(ascii.c)
                      THEN [app |-> m, brk |-> TRUE, reset_sent |-> FALSE]
                      ELSE [app |-> CASE code = Char(ascii.f) -> main_enable_searching(m)
                                      [] code = Char(ascii.p) -> main_search_with_pid(m)
                                      [] code = Char(110) -> main_search_with_name(m)
                                      [] code = Char(ascii.r) ->
                                            IF reset_ok THEN main_reset(m) ELSE m
                                      [] OTHER -> m,
                            brk |-> FALSE,
                            reset_sent |-> code = Char(ascii.r) /\ reset_ok]
                 ELSE [app |-> m, brk |-> FALSE, reset_sent |-> FALSE]
    IN  IF ~handled.brk /\ handled.app.update_process_gui
        THEN [handled EXCEPT !.app = [main_update_final_process_list(handled.app)
                                         EXCEPT !.update_process_gui = FALSE]]
        ELSE handled

\* main.rs 271-275: the MouseInput arm.
main_mouse_input(m, event) ==
    CASE event.kind = "ScrollUp" -> main_decrement_position_count(m)
      [] event.kind = "ScrollDown" -> main_increment_position_count(m)
      [] OTHER -> m

\* The Update arm without its test of is_frozen.
main_update_NoFrozenTest(m, data) ==
    LET eaten == eat_data(m.data_collection, data)
    IN  main_update_final_process_list(
            [m EXCEPT !.data_collection = eaten,
                      !.process_data = main_convert_single(eaten),
                      !.grouped_process_data = main_convert_grouped(eaten)])

\* main.rs 276-313: the Update arm.
main_update(m, data) ==
    IF ~m.is_frozen
    THEN LET eaten == eat_data(m.data_collection, data)
         IN  main_update_final_process_list(
                 [m EXCEPT !.data_collection = eaten,
                           !.process_data = main_convert_single(eaten),
                           !.grouped_process_data = main_convert_grouped(eaten)])
    ELSE m

\* The Update arm on the history, a frozen app eating the snapshot too.
main_update_history_NoFrozenTest(m, timed, collected_at) ==
    eat_timed_data(timed, collected_at)

\* main.rs 277-278: the Update arm on the history.
main_update_history(m, timed, collected_at) ==
    IF ~m.is_frozen THEN eat_timed_data(timed, collected_at) ELSE timed

\* The Clean arm that drops all of the history.
main_clean_DropsAll(timed, now) == <<>>

\* main.rs 314-317: the Clean arm on the history.
main_clean(timed, now) == clean_data(timed, now, STALE_MAX_MILLISECONDS)

\* main.rs 322-327: a grouped list is never sorted by pid.
quick_fix(m) ==
    IF m.process_sorting_type = "PID" /\ m.is_grouped
    THEN [m EXCEPT !.process_sorting_type = "CPU", !.process_sorting_reverse = TRUE]
    ELSE m

(***************************************************************************)
(* main.rs: the main thread.                                               *)
(***************************************************************************)
\* main.rs 118-135: the app is built, grouped at once under --group.
InitMain ==
    /\ program = "main.rs"
    /\ op = "init"
    /\ app = NewApp([w \in {1} |-> DefaultWidgetState])
    /\ filtered_process_data = <<>>
    /\ \E group_processes \in BOOLEAN :
          main_app = [NewMainApp EXCEPT !.is_grouped = group_processes]
    /\ main_filtered = <<>>
    /\ pc = "enable_raw_mode"
    /\ terminal = CookedTerminal
    /\ exit_result = "running"
    /\ recv = None
    /\ NoThreads /\ NoCall /\ NoTime

\* A fallible step of main.rs 139-145: on Ok the terminal changes and main
\* goes on, on Err the ? returns the error from main.
SetupStep(at, changed, next, owns_terminal) ==
    /\ program = "main.rs"
    /\ pc = at
    /\ op' = at
    /\ \E result \in {"Ok", "Err"} :
          IF result = "Ok"
          THEN /\ terminal' = changed
               /\ pc' = next
               /\ UNCHANGED exit_result
          ELSE /\ \E shown \in BOOLEAN :
                     terminal' = IF owns_terminal THEN drop_terminal(terminal, shown)
                                 ELSE terminal
               /\ pc' = "exited"
               /\ exit_result' = "Err(setup)"
    /\ UNCHANGED <<program, lib_vars, main_vars, recv, thread_vars, call_vars, time_vars>>

\* main.rs 139
EnableRawMode ==
    SetupStep("enable_raw_mode", [terminal EXCEPT !.raw_mode = TRUE],
              "EnterAlternateScreen", FALSE)

\* main.rs 140
EnterAlternateScreen ==
    SetupStep("EnterAlternateScreen", [terminal EXCEPT !.alternate_screen = TRUE],
              "EnableMouseCapture", FALSE)

\* main.rs 141
EnableMouseCapture ==
    SetupStep("EnableMouseCapture", [terminal EXCEPT !.mouse_capture = TRUE],
              "Terminal::new", FALSE)

\* main.rs 143
TerminalNew == SetupStep("Terminal::new", terminal, "hide_cursor", FALSE)

\* main.rs 144
HideCursor ==
    SetupStep("hide_cursor", [terminal EXCEPT !.cursor_hidden = TRUE], "clear", TRUE)

\* main.rs 145
Clear == SetupStep("clear", terminal, "spawn", TRUE)

\* main.rs 148-212: the two channels are made and the input thread, the
\* cleaning loop and the harvest thread are spawned; main goes into its loop.
SpawnThreads ==
    /\ program = "main.rs" /\ pc = "spawn"
    /\ op' = "spawn"
    /\ input_thread' = [input_thread EXCEPT !.pc = "read"]
    /\ clean_thread' = [clean_thread EXCEPT !.pc = "sleep"]
    /\ harvest_thread' = [harvest_thread EXCEPT !.pc = "try_recv"]
    /\ consumer' = [consumer EXCEPT !.alive = TRUE]
    /\ pc' = "recv_timeout"
    /\ UNCHANGED <<program, lib_vars, main_vars, terminal, exit_result, recv,
                   event_channel, reset_channel, call_vars, time_vars>>

\* A receive without a timeout: it returns when the channel holds an event.
LoopTimeout_WaitsForEvent ==
    /\ program = "main.rs" /\ pc = "recv_timeout"
    /\ event_channel # <<>>
    /\ op' = "timeout"
    /\ pc' = "draw_data"
    /\ UNCHANGED <<program, lib_vars, main_vars, terminal, exit_result, recv, thread_vars,
                   call_vars, time_vars>>

\* main.rs 216: no event within the tick.
LoopTimeout ==
    /\ program = "main.rs" /\ pc = "recv_timeout"
    /\ op' = "timeout"
    /\ pc' = "draw_data"
    /\ UNCHANGED <<program, lib_vars, main_vars, terminal, exit_result, recv, thread_vars,
                   call_vars, time_vars>>

\* main.rs 218-270: a key event is received; the Reset of CONTROL+r is sent
\* or the send fails.
LoopKeyInput(event) ==
    /\ program = "main.rs" /\ pc = "recv_timeout"
    /\ (is_empty(event.modifiers) /\ event.code[1] = "Char" /\ main_app.is_in_search_widget)
        => Len(main_app.current_search_query) < MaxQueryLen
    /\ op' = "KeyInput"
    /\ \E reset_ok \in IF event = KeyEvent(Char(ascii.r), {"CONTROL"}) THEN BOOLEAN ELSE {TRUE} :
          LET handled == main_key_input(main_app, event, reset_ok)
          IN  /\ main_app' = handled.app
              /\ timed_data_vec' = IF handled.reset_sent THEN <<>> ELSE timed_data_vec
              /\ pc' = IF handled.brk THEN "cleanup" ELSE "draw_data"
    /\ UNCHANGED <<program, lib_vars, main_filtered, terminal, exit_result, recv, thread_vars,
                   call_vars, current_time, input_log, update_rate_in_milliseconds>>

\* main.rs 271-275: a mouse event is received.
LoopMouseInput(event) ==
    /\ program = "main.rs" /\ pc = "recv_timeout"
    /\ op' = "MouseInput"
    /\ main_app' = main_mouse_input(main_app, event)
    /\ pc' = "draw_data"
    /\ UNCHANGED <<program, lib_vars, main_filtered, terminal, exit_result, recv, thread_vars,
                   call_vars, time_vars>>

\* main.rs 276-313: a snapshot is received.
LoopUpdate(data) ==
    /\ program = "main.rs" /\ pc = "recv_timeout"
    /\ main_app.is_frozen \/ Len(timed_data_vec) < MaxHistory
    /\ op' = "Update"
    /\ recv' = Some(data)
    /\ main_app' = main_update(main_app, data)
    /\ \E collected_at \in CollectionTimes(timed_data_vec, current_time) :
          timed_data_vec' = main_update_history(main_app, timed_data_vec, collected_at)
    /\ pc' = "draw_data"
    /\ UNCHANGED <<program, lib_vars, main_filtered, terminal, exit_result, thread_vars,
                   call_vars, current_time, input_log, update_rate_in_milliseconds>>

\* main.rs 314-317: the retained history is cleaned; nothing else of the app
\* is passed to clean_data.
LoopClean ==
    /\ program = "main.rs" /\ pc = "recv_timeout"
    /\ op' = "Clean"
    /\ timed_data_vec' = main_clean(timed_data_vec, current_time)
    /\ pc' = "draw_data"
    /\ UNCHANGED <<program, lib_vars, main_vars, terminal, exit_result, recv, thread_vars,
                   call_vars, current_time, input_log, update_rate_in_milliseconds>>

\* main.rs 321-335: the end of an iteration: the quick fix, then the draw;
\* a draw error cleans the terminal up and is returned from main.
DrawData ==
    /\ program = "main.rs" /\ pc = "draw_data"
    /\ op' = "draw_data"
    /\ \E draw \in {"Ok", "Err"} :
          IF draw = "Ok"
          THEN /\ main_app' = quick_fix(main_app)
               /\ pc' = "recv_timeout"
               /\ UNCHANGED <<terminal, exit_result>>
          ELSE \E failure \in CleanupFailures, shown \in BOOLEAN :
                  LET cleaned == cleanup(terminal, failure)
                  IN  /\ main_app' = NewMainApp
                      /\ terminal' = drop_terminal(cleaned.terminal, shown)
                      /\ pc' = "exited"
                      /\ exit_result' = IF cleaned.result = "Ok" THEN "Err(draw)"
                                        ELSE "Err(cleanup)"
    /\ UNCHANGED <<program, lib_vars, main_filtered, recv, thread_vars, call_vars, time_vars>>

\* main.rs 337-338: after the break.
Cleanup ==
    /\ program = "main.rs" /\ pc = "cleanup"
    /\ op' = "cleanup"
    /\ \E failure \in CleanupFailures, shown \in BOOLEAN :
          LET cleaned == cleanup(terminal, failure)
          IN  /\ terminal' = drop_terminal(cleaned.terminal, shown)
              /\ exit_result' = IF cleaned.result = "Ok" THEN "Ok" ELSE "Err(cleanup)"
    /\ main_app' = NewMainApp
    /\ pc' = "exited"
    /\ UNCHANGED <<program, lib_vars, main_filtered, recv, thread_vars, call_vars, time_vars>>

NextMain ==
    \/ EnableRawMode
    \/ EnterAlternateScreen
    \/ EnableMouseCapture
    \/ TerminalNew
    \/ HideCursor
    \/ Clear
    \/ SpawnThreads
    \/ LoopTimeout
    \/ \E event \in KeyEvents : LoopKeyInput(event)
    \/ \E event \in MouseEvents : LoopMouseInput(event)
    \/ \E data \in Snapshots : LoopUpdate(data)
    \/ LoopClean
    \/ DrawData
    \/ Cleanup


(***************************************************************************)
(* main.rs: the loop under a clock.                                        *)
(***************************************************************************)
\* The clock moves on by d milliseconds, up to a limit.
Tick(d, limit) ==
    /\ current_time + d <= limit
    /\ op' = "tick"
    /\ current_time' = current_time + d
    /\ UNCHANGED <<program, lib_vars, main_vars, loop_vars, thread_vars, call_vars,
                   timed_data_vec, input_log, update_rate_in_milliseconds>>

\* main at the head of its loop, the terminal set up and the threads spawned.
InitHistory ==
    /\ program = "main.rs"
    /\ op = "init"
    /\ app = NewApp([w \in {1} |-> DefaultWidgetState])
    /\ filtered_process_data = <<>>
    /\ main_app = NewMainApp
    /\ main_filtered = <<>>
    /\ pc = "recv_timeout"
    /\ terminal = RawTerminal
    /\ exit_result = "running"
    /\ recv = None
    /\ event_channel = <<>>
    /\ reset_channel = 0
    /\ harvest_thread = [pc |-> "try_recv", cleared |-> 0, data |-> None]
    /\ clean_thread = [pc |-> "sleep"]
    /\ input_thread = [pc |-> "read"]
    /\ consumer = [alive |-> TRUE, resets_sent |-> 0, merged |-> None]
    /\ NoCall /\ NoTime

\* The keys of the freeze and of the Reset.
HistoryKeyEvents == {KeyEvent(Char(ascii.f), {}), KeyEvent(Char(ascii.r), {"CONTROL"})}

NextHistory ==
    \/ \E d \in {20000, 40000} : Tick(d, MaxTicks * 20000)
    \/ \E event \in HistoryKeyEvents : LoopKeyInput(event)
    \/ \E data \in Snapshots : LoopUpdate(data)
    \/ LoopClean
    \/ LoopTimeout
    \/ DrawData

SpecHistory == InitHistory /\ [][NextHistory]_vars

(***************************************************************************)
(* main.rs: the start of main, from the arguments to the loop.             *)
(***************************************************************************)
\* What --rate may be given as: numerals below, at and above the two limits,
\* a numeral that does not fit a u128 and a text that is no numeral; None
\* when the flag is absent.
RateArguments ==
    {None, Some([numeral |-> FALSE, digits |-> <<>>]),
     Some([numeral |-> TRUE, digits |-> <<1, 0, 0, 0, 0, 0, 0, 0, 0>>])}
    \cup {Some([numeral |-> TRUE, digits |-> r]) :
             r \in {u128(0), u128(249), u128(250), u128(251), u128(1000),
                    <<0, 0, 0, 0, 0, 0, 1, 0>>,
                    u128_from(u64_MAX),
                    <<0, 0, 0, 1, 0, 0, 0, 0>>,
                    <<0, 0, 0, 1, 0, 0, 0, 1000>>,
                    <<65535, 65535, 65535, 65535, 65535, 65535, 65535, 65535>>}}

\* str::parse::<u128>: the value of a numeral that fits 128 bits, else an error.
parse_u128(text) ==
    IF text.numeral /\ Len(text.digits) = 8 THEN Some(text.digits) ELSE None

\* The test without its upper limit.
validate_update_rate_NoUpperLimit(rate) ==
    IF partial_cmp(rate, u128(250)) = "Less" THEN "Err(InvalidArg)"
    ELSE "Ok"

\* main.rs 88-96: the two limits of the refresh interval.
validate_update_rate(rate) ==
    IF partial_cmp(rate, u128(250)) = "Less" THEN "Err(InvalidArg)"
    ELSE IF partial_cmp(rate, u128_from(u64_MAX)) = "Greater" THEN "Err(InvalidArg)"
    ELSE "Ok"

\* main before it reads its arguments.
InitStartup ==
    /\ program = "main.rs"
    /\ op = "init"
    /\ app = NewApp([w \in {1} |-> DefaultWidgetState])
    /\ filtered_process_data = <<>>
    /\ main_app = NewMainApp
    /\ main_filtered = <<>>
    /\ pc = "parse"
    /\ terminal = CookedTerminal
    /\ exit_result = "running"
    /\ recv = None
    /\ NoThreads /\ NoCall
    /\ current_time = 0
    /\ timed_data_vec = <<>>
    /\ input_log = <<>>
    /\ update_rate_in_milliseconds = None

\* A step of main before the terminal is set up: it goes on or returns an error.
StartupStep(at, next, result, rate) ==
    /\ op' = at
    /\ update_rate_in_milliseconds' = rate
    /\ IF result = "Ok"
       THEN pc' = next /\ UNCHANGED exit_result
       ELSE pc' = "exited" /\ exit_result' = result
    /\ UNCHANGED <<program, lib_vars, main_vars, terminal, recv, thread_vars, call_vars,
                   current_time, timed_data_vec, input_log>>

\* main.rs 79-86: the refresh interval is the parsed --rate or the default;
\* the ? returns the error of a text that does not parse.
ParseRate(argument) ==
    /\ program = "main.rs" /\ pc = "parse"
    /\ IF argument = None
       THEN StartupStep("parse", "validate", "Ok", Some(DEFAULT_REFRESH_RATE_IN_MILLISECONDS))
       ELSE IF parse_u128(argument[1]) = None
            THEN StartupStep("parse", "validate", "Err(InvalidArg)", None)
            ELSE StartupStep("parse", "validate", "Ok", parse_u128(argument[1]))

\* main.rs 88-96
ValidateRate ==
    /\ program = "main.rs" /\ pc = "validate"
    /\ StartupStep("validate", "init_logger",
                   validate_update_rate(update_rate_in_milliseconds[1]),
                   update_rate_in_milliseconds)

\* main.rs 98-102: the logger is made in debug mode and may fail.
InitLogger ==
    /\ program = "main.rs" /\ pc = "init_logger"
    /\ \E result \in {"Ok", "Err(init_logger)"} :
          StartupStep("init_logger", "App::new", result, update_rate_in_milliseconds)

\* main.rs 118-135: the app is built with the interval cast to u64, and
\* grouped at once under --group.
AppNew ==
    /\ program = "main.rs" /\ pc = "App::new"
    /\ op' = "App::new"
    /\ \E group_processes \in BOOLEAN :
          main_app' = [NewMainApp EXCEPT
                          !.update_rate_in_milliseconds = as_u64(update_rate_in_milliseconds[1]),
                          !.is_grouped = group_processes]
    /\ pc' = "enable_raw_mode"
    /\ UNCHANGED <<program, lib_vars, main_filtered, terminal, exit_result, recv,
                   thread_vars, call_vars, time_vars>>

NextStartup ==
    \/ \E argument \in RateArguments : ParseRate(argument)
    \/ ValidateRate
    \/ InitLogger
    \/ AppNew
    \/ EnableRawMode
    \/ EnterAlternateScreen
    \/ EnableMouseCapture
    \/ TerminalNew
    \/ HideCursor
    \/ Clear
    \/ SpawnThreads

SpecStartup == InitStartup /\ [][NextStartup]_vars

\* The refresh interval is within the two limits.
RateInRange(rate) ==
    /\ partial_cmp(u128(250), rate) # "Greater"
    /\ partial_cmp(rate, u128_from(u64_MAX)) # "Greater"

\* C13: main goes past the validation of its arguments exactly when the
\* refresh interval r satisfies 250 <= r <= u64::MAX, and then the cast to
\* u64 gives r; with any other --rate main has returned an InvalidArg error,
\* the terminal not in raw mode, no thread spawned and the loop not begun.
C13_RateValidated ==
    /\ pc \notin {"parse", "validate"}
        => (exit_result # "Err(InvalidArg)"
              <=> (update_rate_in_milliseconds # None
                      /\ RateInRange(update_rate_in_milliseconds[1])))
    /\ exit_result = "Err(InvalidArg)"
        => /\ pc = "exited"
           /\ terminal = CookedTerminal
           /\ op \in {"parse", "validate"}
           /\ harvest_thread.pc = "absent" /\ clean_thread.pc = "absent"
           /\ input_thread.pc = "absent"
    /\ pc \notin {"parse", "validate", "init_logger", "App::new", "exited"}
        => u128_from(main_app.update_rate_in_milliseconds) = update_rate_in_milliseconds[1]

\* C13 witness: --rate 18446744073709551616 (u64::MAX + 1) was turned down.
C13_Witness ==
    /\ pc = "exited" /\ exit_result = "Err(InvalidArg)"
    /\ update_rate_in_milliseconds = Some(<<0, 0, 0, 1, 0, 0, 0, 0>>)

\* The threads run and the loop waits for an event with the largest interval.
StartupLargestRate ==
    /\ pc = "recv_timeout"
    /\ harvest_thread.pc = "try_recv"
    /\ main_app.update_rate_in_milliseconds = u64_MAX


(***************************************************************************)
(* lib.rs: the methods of the App that the handlers call (app.rs).         *)
(***************************************************************************)
is_in_search_widget(a) == a.is_in_search_widget

handle_scroll_down(a) ==
    LET w == a.current_widget
    IN  IF a.widget_states[w].current_scroll_position + 1 < Len(a.finalized_process_data_map[w])
        THEN [a EXCEPT !.widget_states[w].current_scroll_position = @ + 1,
                       !.widget_states[w].scroll_direction = "Down"]
        ELSE a

handle_scroll_up(a) ==
    LET w == a.current_widget
    IN  IF a.widget_states[w].current_scroll_position > 0
        THEN [a EXCEPT !.widget_states[w].current_scroll_position = @ - 1,
                       !.widget_states[w].scroll_direction = "Up"]
        ELSE a

on_down_key(a) == IF is_in_search_widget(a) THEN a ELSE handle_scroll_down(a)

on_up_key(a) == IF is_in_search_widget(a) THEN a ELSE handle_scroll_up(a)

skip_to_first(a) ==
    IF is_in_search_widget(a) THEN a
    ELSE [a EXCEPT !.widget_states[a.current_widget].current_scroll_position = 0,
                   !.widget_states[a.current_widget].scroll_direction = "Up"]

skip_to_last(a) ==
    IF is_in_search_widget(a) THEN a
    ELSE [a EXCEPT !.widget_states[a.current_widget].current_scroll_position =
                        saturating_sub(Len(a.finalized_process_data_map[a.current_widget]), 1),
                   !.widget_states[a.current_widget].scroll_direction = "Down"]

\* The query of a widget is compiled again: a blank query and a query that
\* does not compile keep the matcher of the query before.
update_query(ws) ==
    IF ws.search_query = <<>> \/ is_invalid_search(ws) THEN ws
    ELSE [ws EXCEPT !.compiled_query = Some(ws.search_query)]

\* A change of the focused widget's search settings asks for its recompute.
ChangeSearch(a, ws) ==
    [a EXCEPT !.widget_states[a.current_widget] = update_query(ws),
              !.force_update = Some(a.current_widget)]

on_char_key(a, caught_char) ==
    IF is_in_search_widget(a)
    THEN ChangeSearch(a, [a.widget_states[a.current_widget] EXCEPT
                              !.search_query = Append(@, caught_char)])
    ELSE CASE caught_char = ascii.f -> [a EXCEPT !.is_frozen = ~@]
           [] OTHER -> a

on_backspace(a) ==
    IF is_in_search_widget(a) /\ a.widget_states[a.current_widget].search_query # <<>>
    THEN ChangeSearch(a, [a.widget_states[a.current_widget] EXCEPT
                              !.search_query = SubSeq(@, 1, Len(@) - 1)])
    ELSE a

clear_search(a) ==
    IF is_in_search_widget(a)
    THEN ChangeSearch(a, [a.widget_states[a.current_widget] EXCEPT !.search_query = <<>>])
    ELSE a

toggle_ignore_case(a) ==
    IF is_in_search_widget(a)
    THEN ChangeSearch(a, [a.widget_states[a.current_widget] EXCEPT !.is_ignoring_case = ~@])
    ELSE a

toggle_search_whole_word(a) ==
    IF is_in_search_widget(a)
    THEN ChangeSearch(a, [a.widget_states[a.current_widget] EXCEPT
                              !.is_searching_whole_word = ~@])
    ELSE a

toggle_search_regex(a) ==
    IF is_in_search_widget(a)
    THEN ChangeSearch(a, [a.widget_states[a.current_widget] EXCEPT
                              !.is_searching_with_regex = ~@])
    ELSE a

on_tab(a) ==
    IF is_in_search_widget(a) THEN a
    ELSE [a EXCEPT !.widget_states[a.current_widget].is_grouped = ~@,
                   !.force_update = Some(a.current_widget)]

toggle_tree_mode(a) ==
    IF is_in_search_widget(a) THEN a
    ELSE [a EXCEPT !.widget_states[a.current_widget].is_tree_mode = ~@,
                   !.force_update = Some(a.current_widget)]

on_slash(a) == [a EXCEPT !.is_in_search_widget = TRUE]

on_esc(a) == [a EXCEPT !.is_in_search_widget = FALSE]

\* The navigation graph of two process widgets side by side.
move_widget_selection(a, direction) ==
    CASE direction = "Right" /\ a.current_widget = 1 ->
            [a EXCEPT !.current_widget = 2, !.is_in_search_widget = FALSE]
      [] direction = "Left" /\ a.current_widget = 2 ->
            [a EXCEPT !.current_widget = 1, !.is_in_search_widget = FALSE]
      [] OTHER -> a

\* A left click on the widget under the pointer gives it the focus.
left_mouse_click_movement(a, x) ==
    IF x \in DOMAIN a.widget_states /\ x # a.current_widget
    THEN [a EXCEPT !.current_widget = x, !.is_in_search_widget = FALSE]
    ELSE a

\* App::reset: the retained data is cleared and every list is to be recomputed.
reset(a) ==
    [a EXCEPT !.is_in_search_widget = FALSE, !.data_collection = <<>>,
              !.force_update_all = TRUE]

(***************************************************************************)
(* lib.rs: the handlers.                                                   *)
(***************************************************************************)
\* handle_mouse_event without its test of disable_click.
handle_mouse_event_NoClickTest(event, a) ==
    CASE event.kind = "ScrollUp" -> handle_scroll_up(a)
      [] event.kind = "ScrollDown" -> handle_scroll_down(a)
      [] event.kind = "Down" ->
            CASE event.button = "Left" -> left_mouse_click_movement(a, event.x)
              [] OTHER -> a
      [] OTHER -> a

\* lib.rs handle_mouse_event(event, app)
handle_mouse_event(event, a) ==
    CASE event.kind = "ScrollUp" -> handle_scroll_up(a)
      [] event.kind = "ScrollDown" -> handle_scroll_down(a)
      [] event.kind = "Down" ->
            IF ~a.disable_click
            THEN CASE event.button = "Left" -> left_mouse_click_movement(a, event.x)
                   [] OTHER -> a
            ELSE a
      [] OTHER -> a

\* handle_key_event_or_break whose q leaves the loop whatever has the focus.
handle_key_event_or_break_NoFocusTest(event, a, reset_ok) ==
    IF is_empty(event.modifiers) /\ event.code = Char(ascii.q)
    THEN [app |-> a, brk |-> TRUE, reset_sent |-> FALSE]
    ELSE IF event.modifiers = {"CONTROL"} /\ event.code = Char(ascii.c)
    THEN [app |-> a, brk |-> TRUE, reset_sent |-> FALSE]
    ELSE [app |-> a, brk |-> FALSE, reset_sent |-> FALSE]

\* handle_key_event_or_break that resets the app whether or not the Reset
\* was sent.
handle_key_event_or_break_ResetsAnyway(event, a, reset_ok) ==
    IF event.modifiers = {"CONTROL"} /\ event.code = Char(ascii.r)
    THEN [app |-> reset(a), brk |-> FALSE, reset_sent |-> reset_ok]
    ELSE [app |-> a, brk |-> FALSE, reset_sent |-> FALSE]

\* handle_key_event_or_break that takes CONTROL among the modifiers for
\* CONTROL.
handle_key_event_or_break_ControlAmongModifiers(event, a, reset_ok) ==
    IF "CONTROL" \in event.modifiers /\ event.code = Char(ascii.c)
    THEN [app |-> a, brk |-> TRUE, reset_sent |-> FALSE]
    ELSE IF "CONTROL" \in event.modifiers /\ event.code = Char(ascii.r)
    THEN [app |-> IF reset_ok THEN reset(a) ELSE a, brk |-> FALSE, reset_sent |-> reset_ok]
    ELSE [app |-> a, brk |-> FALSE, reset_sent |-> FALSE]

\* lib.rs handle_key_event_or_break(event, app, reset_sender): brk is the
\* value returned, reset_sent says that a Reset went onto the control channel.
handle_key_event_or_break(event, a, reset_ok) ==
    LET code == event.code
        Continue(a1) == [app |-> a1, brk |-> FALSE, reset_sent |-> FALSE]
        Break == [app |-> a, brk |-> TRUE, reset_sent |-> FALSE]
    IN  IF is_empty(event.modifiers)
        THEN IF code = Char(ascii.q) /\ ~is_in_search_widget(a) THEN Break
             ELSE Continue(CASE code = Key("End") -> skip_to_last(a)
                             [] code = Key("Home") -> skip_to_first(a)
                             [] code = Key("Up") -> on_up_key(a)
                             [] code = Key("Down") -> on_down_key(a)
                             [] code[1] = "Char" -> on_char_key(a, code[2])
                             [] code = Key("Esc") -> on_esc(a)
                             [] code = Key("Tab") -> on_tab(a)
                             [] code = Key("Backspace") -> on_backspace(a)
                             [] code = <<"F", 1>> -> toggle_ignore_case(a)
                             [] code = <<"F", 2>> -> toggle_search_whole_word(a)
                             [] code = <<"F", 3>> -> toggle_search_regex(a)
                             [] code = <<"F", 5>> -> toggle_tree_mode(a)
                             [] OTHER -> a)
        ELSE IF event.modifiers = {"ALT"}
        THEN Continue(CASE code \in {Char(ascii.c), Char(67)} -> toggle_ignore_case(a)
                        [] code \in {Char(119), Char(87)} -> toggle_search_whole_word(a)
                        [] code \in {Char(ascii.r), Char(82)} -> toggle_search_regex(a)
                        [] OTHER -> a)
        ELSE IF event.modifiers = {"CONTROL"}
        THEN IF code = Char(ascii.c) THEN Break
             ELSE [app |-> CASE code = Char(ascii.f) -> on_slash(a)
                             [] code = Key("Left") -> move_widget_selection(a, "Left")
                             [] code = Key("Right") -> move_widget_selection(a, "Right")
                             [] code = Key("Up") -> move_widget_selection(a, "Up")
                             [] code = Key("Down") -> move_widget_selection(a, "Down")
                             [] code = Char(ascii.r) -> IF reset_ok THEN reset(a) ELSE a
                             [] code = Char(117) -> clear_search(a)
                             [] OTHER -> a,
                   brk |-> FALSE,
                   reset_sent |-> code = Char(ascii.r) /\ reset_ok]
        ELSE IF event.modifiers = {"SHIFT"}
        THEN Continue(CASE code = Key("Left") -> move_widget_selection(a, "Left")
                        [] code = Key("Right") -> move_widget_selection(a, "Right")
                        [] code = Key("Up") -> move_widget_selection(a, "Up")
                        [] code = Key("Down") -> move_widget_selection(a, "Down")
                        [] code[1] = "Char" -> on_char_key(a, code[2])
                        [] OTHER -> a)
        ELSE Continue(a)

\* handle_force_redraws that serves both requests in one call.
handle_force_redraws_ServesBoth(a) ==
    IF a.force_update_all
    THEN [update_all_process_lists(a) EXCEPT !.force_update_all = FALSE,
                                             !.force_update = None]
    ELSE IF a.force_update # None
         THEN [update_final_process_list(a, a.force_update[1]) EXCEPT !.force_update = None]
         ELSE a

\* handle_force_redraws that keeps the request of a frozen app for later.
handle_force_redraws_KeepsFrozenRequest(a) ==
    IF a.force_update_all
    THEN IF a.is_frozen THEN a
         ELSE [update_all_process_lists(a) EXCEPT !.force_update_all = FALSE]
    ELSE IF a.force_update # None
         THEN [update_final_process_list(a, a.force_update[1]) EXCEPT !.force_update = None]
         ELSE a

\* lib.rs handle_force_redraws(app): the process lists.
handle_force_redraws(a) ==
    IF a.force_update_all
    THEN [update_all_process_lists(a) EXCEPT !.force_update_all = FALSE]
    ELSE IF a.force_update # None
         THEN [update_final_process_list(a, a.force_update[1]) EXCEPT !.force_update = None]
         ELSE a

\* The Update arm of the loop that calls the handlers: a snapshot is merged
\* unless the app is frozen, then the lists are brought up to date.
lib_update(a, data) ==
    update_all_process_lists(
        IF ~a.is_frozen THEN [a EXCEPT !.data_collection = eat_data(a.data_collection, data)]
        ELSE a)

(***************************************************************************)
(* lib.rs: a main thread that calls the handlers.                          *)
(***************************************************************************)
\* The app of two process widgets.
TwoWidgetApp(disable_click) ==
    [NewApp([w \in WidgetIds |-> DefaultWidgetState]) EXCEPT !.disable_click = disable_click]

InitLib ==
    /\ program = "lib.rs"
    /\ op = "init"
    /\ app = TwoWidgetApp(FALSE)
    /\ filtered_process_data = <<>>
    /\ main_app = NewMainApp
    /\ main_filtered = <<>>
    /\ pc = "loop"
    /\ terminal = RawTerminal
    /\ exit_result = "running"
    /\ recv = None
    /\ NoThreads /\ NoCall /\ NoTime

\* A key event is handled.
HandleKeyEvent(event) ==
    /\ program = "lib.rs" /\ pc = "loop"
    /\ (event.modifiers \in {{}, {"SHIFT"}} /\ event.code[1] = "Char" /\ is_in_search_widget(app))
        => Len(app.widget_states[app.current_widget].search_query) < MaxQueryLen
    /\ op' = "handle_key_event_or_break"
    /\ \E reset_ok \in IF event = KeyEvent(Char(ascii.r), {"CONTROL"}) THEN BOOLEAN ELSE {TRUE} :
          LET handled == handle_key_event_or_break(event, app, reset_ok)
          IN  /\ app' = handled.app
              /\ pc' = IF handled.brk THEN "cleanup" ELSE "loop"
    /\ UNCHANGED <<program, filtered_process_data, main_vars, terminal, exit_result, recv,
                   thread_vars, call_vars, time_vars>>

\* A mouse event is handled.
HandleMouseEvent(event) ==
    /\ program = "lib.rs" /\ pc = "loop"
    /\ op' = "handle_mouse_event"
    /\ app' = handle_mouse_event(event, app)
    /\ UNCHANGED <<program, filtered_process_data, main_vars, pc, terminal, exit_result, recv,
                   thread_vars, call_vars, time_vars>>

\* A snapshot is handled.
HandleUpdate(data) ==
    /\ program = "lib.rs" /\ pc = "loop"
    /\ op' = "Update"
    /\ recv' = Some(data)
    /\ app' = lib_update(app, data)
    /\ UNCHANGED <<program, filtered_process_data, main_vars, pc, terminal, exit_result,
                   thread_vars, call_vars, time_vars>>

\* The pending recomputes are served.
HandleForceRedraws ==
    /\ program = "lib.rs" /\ pc = "loop"
    /\ op' = "handle_force_redraws"
    /\ app' = handle_force_redraws(app)
    /\ UNCHANGED <<program, filtered_process_data, main_vars, pc, terminal, exit_result, recv,
                   thread_vars, call_vars, time_vars>>

\* lib.rs try_drawing(terminal, app, painter): a draw error cleans the
\* terminal up and is returned.
TryDrawing ==
    /\ program = "lib.rs" /\ pc = "loop"
    /\ op' = "try_drawing"
    /\ \E draw \in {"Ok", "Err"} :
          IF draw = "Ok"
          THEN UNCHANGED <<app, pc, terminal, exit_result>>
          ELSE \E failure \in CleanupFailures, shown \in BOOLEAN :
                  LET cleaned == cleanup_terminal(terminal, failure)
                  IN  /\ app' = TwoWidgetApp(app.disable_click)
                      /\ terminal' = drop_terminal(cleaned.terminal, shown)
                      /\ pc' = "exited"
                      /\ exit_result' = IF cleaned.result = "Ok" THEN "Err(draw)"
                                        ELSE "Err(cleanup)"
    /\ UNCHANGED <<program, filtered_process_data, main_vars, recv, thread_vars,
                   call_vars, time_vars>>

\* The loop was left: cleanup_terminal, then the end.
CleanupTerminal ==
    /\ program = "lib.rs" /\ pc = "cleanup"
    /\ op' = "cleanup_terminal"
    /\ \E failure \in CleanupFailures, shown \in BOOLEAN :
          LET cleaned == cleanup_terminal(terminal, failure)
          IN  /\ terminal' = drop_terminal(cleaned.terminal, shown)
              /\ exit_result' = IF cleaned.result = "Ok" THEN "Ok" ELSE "Err(cleanup)"
    /\ app' = TwoWidgetApp(app.disable_click)
    /\ pc' = "exited"
    /\ UNCHANGED <<program, filtered_process_data, main_vars, recv, thread_vars,
                   call_vars, time_vars>>

\* A panic: panic_hook runs; whether the Terminal is dropped after it
\* depends on the thread that panicked and on the panic strategy.
Panic ==
    /\ program = "lib.rs" /\ pc = "loop"
    /\ op' = "panic_hook"
    /\ \E shown \in BOOLEAN : terminal' = drop_terminal(panic_hook(terminal), shown)
    /\ app' = TwoWidgetApp(app.disable_click)
    /\ pc' = "exited"
    /\ exit_result' = "panic"
    /\ UNCHANGED <<program, filtered_process_data, main_vars, recv, thread_vars,
                   call_vars, time_vars>>

NextLib ==
    \/ \E event \in LibKeyEvents : HandleKeyEvent(event)
    \/ \E event \in LibMouseEvents : HandleMouseEvent(event)
    \/ \E data \in Snapshots : HandleUpdate(data)
    \/ HandleForceRedraws
    \/ TryDrawing
    \/ CleanupTerminal
    \/ Panic

Init == InitMain \/ InitLib

Next == NextMain \/ NextLib

Spec == Init /\ [][Next]_vars


(***************************************************************************)
(* The handlers called directly on drawn apps.                             *)
(***************************************************************************)
\* Most Resets sent in a run.
MaxResets == 2

\* The key of the Reset.
ControlR == KeyEvent(Char(ascii.r), {"CONTROL"})

\* Key events that no arm of lib.rs 99-171 names: two modifiers at once,
\* a letter that CONTROL does not bind, a key without a modifier that has
\* no arm.
UnboundKeyEvents ==
    {KeyEvent(Key("Left"), {"CONTROL", "SHIFT"}), KeyEvent(Char(ascii.c), {"CONTROL", "ALT"}),
     KeyEvent(Char(ascii.r), {"CONTROL", "SHIFT"}),
     KeyEvent(Char(ascii.q), {"CONTROL"}), KeyEvent(Key("PageUp"), {})}

\* lib.rs: an app of two process widgets after a merge, with clicks
\* enabled or disabled and the focus in the table or in the search box.
InitHandlersLib ==
    /\ program = "lib.rs"
    /\ op = "init"
    /\ \E disable_click \in BOOLEAN, data \in Snapshots, in_search \in BOOLEAN :
          app = update_all_process_lists(
                    [TwoWidgetApp(disable_click) EXCEPT !.data_collection = data,
                                                        !.is_in_search_widget = in_search])
    /\ filtered_process_data = <<>>
    /\ main_app = NewMainApp
    /\ main_filtered = <<>>
    /\ NoLoop /\ NoThreads /\ NoCall /\ NoTime

\* main.rs: the app after a merge, the focus in the table or in the search box.
InitHandlersMain ==
    /\ program = "main.rs"
    /\ op = "init"
    /\ app = NewApp([w \in {1} |-> DefaultWidgetState])
    /\ filtered_process_data = <<>>
    /\ \E data \in Snapshots, in_search \in BOOLEAN, group_processes \in BOOLEAN :
          main_app = main_update([NewMainApp EXCEPT !.is_in_search_widget = in_search,
                                                    !.is_grouped = group_processes], data)
    /\ main_filtered = <<>>
    /\ NoLoop /\ NoThreads /\ NoCall /\ NoTime

\* A call of lib.rs handle_mouse_event(event, app).
CallHandleMouseEvent(mouse) ==
    /\ program = "lib.rs" /\ pc = "call" /\ ~returned
    /\ op' = "handle_mouse_event"
    /\ last_event' = Some(mouse)
    /\ app' = handle_mouse_event(mouse, app)
    /\ UNCHANGED <<program, filtered_process_data, main_vars, loop_vars, thread_vars,
                   returned, time_vars>>

\* A call of lib.rs handle_key_event_or_break(event, app, reset_sender).
CallHandleKeyEventOrBreak(key) ==
    /\ program = "lib.rs" /\ pc = "call" /\ ~returned
    /\ (key.modifiers \in {{}, {"SHIFT"}} /\ key.code[1] = "Char" /\ is_in_search_widget(app))
        => Len(app.widget_states[app.current_widget].search_query) < MaxQueryLen
    /\ key = ControlR => reset_channel < MaxResets
    /\ op' = "handle_key_event_or_break"
    /\ last_event' = Some(key)
    /\ \E reset_ok \in IF key = ControlR THEN BOOLEAN ELSE {TRUE} :
          LET handled == handle_key_event_or_break(key, app, reset_ok)
          IN  /\ app' = handled.app
              /\ returned' = handled.brk
              /\ reset_channel' = IF handled.reset_sent THEN reset_channel + 1
                                  ELSE reset_channel
    /\ UNCHANGED <<program, filtered_process_data, main_vars, loop_vars, event_channel,
                   harvest_thread, clean_thread, input_thread, consumer, time_vars>>

\* main.rs 218-270: the KeyInput arm on a key event.
CallMainKeyInput(key) ==
    /\ program = "main.rs" /\ pc = "call" /\ ~returned
    /\ (is_empty(key.modifiers) /\ key.code[1] = "Char" /\ main_app.is_in_search_widget)
        => Len(main_app.current_search_query) < MaxQueryLen
    /\ key = ControlR => reset_channel < MaxResets
    /\ op' = "KeyInput"
    /\ last_event' = Some(key)
    /\ \E reset_ok \in IF key = ControlR THEN BOOLEAN ELSE {TRUE} :
          LET handled == main_key_input(main_app, key, reset_ok)
          IN  /\ main_app' = handled.app
              /\ returned' = handled.brk
              /\ reset_channel' = IF handled.reset_sent THEN reset_channel + 1
                                  ELSE reset_channel
    /\ UNCHANGED <<program, lib_vars, main_filtered, loop_vars, event_channel,
                   harvest_thread, clean_thread, input_thread, consumer, time_vars>>

\* main.rs 271-275: the MouseInput arm on a mouse event.
CallMainMouseInput(mouse) ==
    /\ program = "main.rs" /\ pc = "call" /\ ~returned
    /\ op' = "MouseInput"
    /\ last_event' = Some(mouse)
    /\ main_app' = main_mouse_input(main_app, mouse)
    /\ UNCHANGED <<program, lib_vars, main_filtered, loop_vars, thread_vars,
                   returned, time_vars>>

InitHandlers == InitHandlersLib \/ InitHandlersMain

\* The key events the handlers are called with: the quit keys, the keys
\* that move the focus into and out of the search box and between the
\* widgets, a scroll key, the key of the Reset and the keys without a binding.
HandlerKeyEvents ==
    {KeyEvent(Char(ascii.q), {}), KeyEvent(Char(ascii.c), {"CONTROL"}),
     KeyEvent(Char(ascii.f), {"CONTROL"}), KeyEvent(Key("Esc"), {}),
     KeyEvent(Key("Right"), {"CONTROL"}), KeyEvent(Key("Left"), {"SHIFT"}),
     KeyEvent(Key("Down"), {}), ControlR} \cup UnboundKeyEvents

NextHandlers ==
    \/ \E mouse \in MouseEvents : CallHandleMouseEvent(mouse)
    \/ \E key \in HandlerKeyEvents : CallHandleKeyEventOrBreak(key)
    \/ \E key \in HandlerKeyEvents : CallMainKeyInput(key)
    \/ \E mouse \in MouseEvents : CallMainMouseInput(mouse)

SpecHandlers == InitHandlers /\ [][NextHandlers]_vars

\* C14 as claimed: with disable_click set, handle_mouse_event leaves the app
\* as it was for every mouse event, the scroll events and the button
\* presses included.
C14_ClickDisabledSuppressesMouse ==
    [][(program = "lib.rs" /\ op' = "handle_mouse_event" /\ app.disable_click)
        => app' = app]_vars

\* C14 as amended: with disable_click set, handle_mouse_event leaves the app
\* as it was for every mouse event other than ScrollUp and ScrollDown, the
\* button presses included.
C14_ClickDisabledSuppressesPresses ==
    [][(program = "lib.rs" /\ op' = "handle_mouse_event" /\ app.disable_click
            /\ last_event'[1].kind \notin {"ScrollUp", "ScrollDown"})
        => app' = app]_vars

\* C14 witness: with disable_click set, a left press on the widget that
\* does not have the focus was handled and the focus stayed.
C14_Witness ==
    /\ program = "lib.rs" /\ op = "handle_mouse_event"
    /\ app.disable_click
    /\ last_event = Some(MouseEvent("Down", "Left", 2))
    /\ app.current_widget = 1

QKey == KeyEvent(Char(ascii.q), {})

ControlC == KeyEvent(Char(ascii.c), {"CONTROL"})

\* C15: an unmodified q leaves the event loop exactly when no search box
\* has the focus; with the focus in a search box the q is appended to the
\* query and the loop goes on; CONTROL+c leaves the loop whatever has the
\* focus (lib.rs handle_key_event_or_break and the KeyInput arm of main.rs).
C15_QuitKeys ==
    [][/\ (program = "lib.rs" /\ op' = "handle_key_event_or_break" /\ last_event' = Some(QKey))
          => /\ returned' = ~is_in_search_widget(app)
             /\ is_in_search_widget(app)
                  => app'.widget_states[app.current_widget].search_query =
                        Append(app.widget_states[app.current_widget].search_query, ascii.q)
       /\ (program = "lib.rs" /\ op' = "handle_key_event_or_break"
                /\ last_event' = Some(ControlC))
          => returned'
       /\ (program = "main.rs" /\ op' = "KeyInput" /\ last_event' = Some(QKey))
          => /\ returned' = ~main_app.is_in_search_widget
             /\ main_app.is_in_search_widget
                  => main_app'.current_search_query =
                        Append(main_app.current_search_query, ascii.q)
       /\ (program = "main.rs" /\ op' = "KeyInput" /\ last_event' = Some(ControlC))
          => returned']_vars

\* C15 witness: a q typed into the search box of lib.rs is in the query
\* and the loop was not left.
C15_Witness ==
    /\ program = "lib.rs" /\ op = "handle_key_event_or_break"
    /\ last_event = Some(QKey)
    /\ is_in_search_widget(app)
    /\ app.widget_states[app.current_widget].search_query = <<ascii.q>>
    /\ ~returned


\* C22: CONTROL+r resets the app exactly when the Reset went onto the
\* control channel; when the send fails no Reset is on the channel and the
\* app is as it was; in neither case is the loop left (lib.rs
\* handle_key_event_or_break and the KeyInput arm of main.rs).
C22_ResetClearsIffSent ==
    [][/\ (program = "lib.rs" /\ op' = "handle_key_event_or_break"
                /\ last_event' = Some(ControlR))
          => /\ ~returned'
             /\ IF reset_channel' = reset_channel + 1
                THEN app' = reset(app)
                ELSE reset_channel' = reset_channel /\ app' = app
       /\ (program = "main.rs" /\ op' = "KeyInput" /\ last_event' = Some(ControlR))
          => /\ ~returned'
             /\ IF reset_channel' = reset_channel + 1
                THEN main_app' = main_reset(main_app)
                ELSE reset_channel' = reset_channel /\ main_app' = main_app]_vars

\* C22 witness: the send of a CONTROL+r failed: no Reset is on the control
\* channel, the app of lib.rs still has its data and its lists, and the
\* loop goes on.
C22_Witness ==
    /\ program = "lib.rs" /\ op = "handle_key_event_or_break"
    /\ last_event = Some(ControlR)
    /\ reset_channel = 0
    /\ Len(app.data_collection) = 3 /\ ~app.force_update_all
    /\ ~returned

\* A CONTROL+r whose Reset was sent has cleared the app.
ResetSentCase ==
    /\ program = "lib.rs" /\ op = "handle_key_event_or_break"
    /\ last_event = Some(ControlR)
    /\ reset_channel = 1
    /\ app.data_collection = <<>> /\ app.force_update_all
    /\ ~returned

\* C23: a key event without a binding, and any key event whose modifiers
\* are not empty and are not ALT alone, CONTROL alone or SHIFT alone, leaves
\* the app as it was, sends no Reset and does not leave the loop (lib.rs
\* handle_key_event_or_break).
C23_UnboundKeysAreNoOps ==
    [][(program = "lib.rs" /\ op' = "handle_key_event_or_break"
            /\ \/ last_event'[1] \in UnboundKeyEvents
               \/ last_event'[1].modifiers \notin {{}, {"ALT"}, {"CONTROL"}, {"SHIFT"}})
        => /\ app' = app
           /\ reset_channel' = reset_channel
           /\ ~returned']_vars

\* C23 witness: CONTROL+ALT+c was handled by an app of lib.rs that has its
\* focus in the table, and the loop goes on.
C23_Witness ==
    /\ program = "lib.rs" /\ op = "handle_key_event_or_break"
    /\ last_event = Some(KeyEvent(Char(ascii.c), {"CONTROL", "ALT"}))
    /\ ~is_in_search_widget(app)
    /\ Len(app.data_collection) = 3
    /\ ~returned

(***************************************************************************)
(* The threads and the two channels.                                       *)
(***************************************************************************)
\* Most messages in flight on the event channel.
MaxQueue == 2

\* A message of the event channel.
UpdateEvent(cleared) == [type |-> "Update", cleared |-> cleared, key |-> ""]
KeyInputEvent(key) == [type |-> "KeyInput", cleared |-> 0, key |-> key]
CleanEvent == [type |-> "Clean", cleared |-> 0, key |-> ""]

\* The keys the input thread reads: the Reset key, the quit key.
ThreadKeys == {"CONTROL+r", "q"}

\* The Reset keys on their way to the loop.
RECURSIVE ResetKeysIn(_)
ResetKeysIn(queue) ==
    IF queue = <<>> THEN 0
    ELSE (IF Head(queue) = KeyInputEvent("CONTROL+r") THEN 1 ELSE 0) + ResetKeysIn(Tail(queue))

\* The threads after main.rs 148-212, or after lib.rs create_input_thread
\* and create_event_thread; harvest_thread.cleared counts the calls of
\* first_run_cleanup, a snapshot carries the count at its collection.
InitThreads ==
    /\ program \in {"main.rs", "lib.rs"}
    /\ op = "init"
    /\ app = NewApp([w \in {1} |-> DefaultWidgetState])
    /\ filtered_process_data = <<>>
    /\ main_app = NewMainApp
    /\ main_filtered = <<>>
    /\ NoLoop
    /\ event_channel = <<>>
    /\ reset_channel = 0
    /\ harvest_thread = [pc |-> "try_recv", cleared |-> 0, data |-> None]
    /\ clean_thread = [pc |-> IF program = "main.rs" THEN "sleep" ELSE "absent"]
    /\ input_thread = [pc |-> "read"]
    /\ consumer = [alive |-> TRUE, resets_sent |-> 0, merged |-> None]
    /\ NoCall /\ NoTime

\* A harvest thread that takes all the Resets there are and clears once.
HarvestTryRecv_DrainsAll ==
    /\ harvest_thread.pc = "try_recv"
    /\ op' = "try_recv"
    /\ IF reset_channel > 0
       THEN /\ reset_channel' = 0
            /\ harvest_thread' = [harvest_thread EXCEPT !.pc = "update_data",
                                                        !.cleared = @ + 1]
       ELSE /\ harvest_thread' = [harvest_thread EXCEPT !.pc = "update_data"]
            /\ UNCHANGED reset_channel
    /\ UNCHANGED <<program, lib_vars, main_vars, loop_vars, event_channel, clean_thread,
                   input_thread, consumer, call_vars, time_vars>>

\* lib.rs 733-739, main.rs 199-205: at most one Reset is taken, without waiting.
HarvestTryRecv ==
    /\ harvest_thread.pc = "try_recv"
    /\ op' = "try_recv"
    /\ IF reset_channel > 0
       THEN /\ reset_channel' = reset_channel - 1
            /\ harvest_thread' = [harvest_thread EXCEPT !.pc = "update_data",
                                                        !.cleared = @ + 1]
       ELSE /\ harvest_thread' = [harvest_thread EXCEPT !.pc = "update_data"]
            /\ UNCHANGED reset_channel
    /\ UNCHANGED <<program, lib_vars, main_vars, loop_vars, event_channel, clean_thread,
                   input_thread, consumer, call_vars, time_vars>>

\* lib.rs 740, main.rs 206: a snapshot is collected on the present baselines.
HarvestUpdateData ==
    /\ harvest_thread.pc = "update_data"
    /\ op' = "update_data"
    /\ harvest_thread' = [harvest_thread EXCEPT !.pc = "send",
                                                !.data = Some(harvest_thread.cleared)]
    /\ UNCHANGED <<program, lib_vars, main_vars, loop_vars, event_channel, reset_channel,
                   clean_thread, input_thread, consumer, call_vars, time_vars>>

\* lib.rs 741-745: the snapshot is moved into the event, a failed send
\* leaves the loop; main.rs 207-208: a clone is sent, a failed send is unwrapped.
HarvestSend ==
    /\ harvest_thread.pc = "send"
    /\ op' = "harvest_send"
    /\ IF consumer.alive
       THEN /\ Len(event_channel) < MaxQueue
            /\ event_channel' = Append(event_channel, UpdateEvent(harvest_thread.data[1]))
            /\ harvest_thread' = [harvest_thread EXCEPT
                                      !.pc = "sleep",
                                      !.data = IF program = "lib.rs" THEN None ELSE @]
       ELSE /\ harvest_thread' = [harvest_thread EXCEPT
                                      !.pc = IF program = "main.rs" THEN "panicked" ELSE "ended",
                                      !.data = IF program = "lib.rs" THEN None ELSE @]
            /\ UNCHANGED event_channel
    /\ UNCHANGED <<program, lib_vars, main_vars, loop_vars, reset_channel, clean_thread,
                   input_thread, consumer, call_vars, time_vars>>

\* lib.rs 746, main.rs 209
HarvestSleep ==
    /\ harvest_thread.pc = "sleep"
    /\ op' = "harvest_sleep"
    /\ harvest_thread' = [harvest_thread EXCEPT !.pc = "try_recv"]
    /\ UNCHANGED <<program, lib_vars, main_vars, loop_vars, event_channel, reset_channel,
                   clean_thread, input_thread, consumer, call_vars, time_vars>>

\* main.rs 181-183
CleanSleep ==
    /\ clean_thread.pc = "sleep"
    /\ op' = "clean_sleep"
    /\ clean_thread' = [clean_thread EXCEPT !.pc = "send"]
    /\ UNCHANGED <<program, lib_vars, main_vars, loop_vars, event_channel, reset_channel,
                   harvest_thread, input_thread, consumer, call_vars, time_vars>>

\* main.rs 184: the send is unwrapped.
CleanSend ==
    /\ clean_thread.pc = "send"
    /\ op' = "clean_send"
    /\ IF consumer.alive
       THEN /\ Len(event_channel) < MaxQueue
            /\ event_channel' = Append(event_channel, CleanEvent)
            /\ clean_thread' = [clean_thread EXCEPT !.pc = "sleep"]
       ELSE /\ clean_thread' = [clean_thread EXCEPT !.pc = "panicked"]
            /\ UNCHANGED event_channel
    /\ UNCHANGED <<program, lib_vars, main_vars, loop_vars, reset_channel, harvest_thread,
                   input_thread, consumer, call_vars, time_vars>>

\* lib.rs 688-708, main.rs 155-173: a key is read and sent; a failed send
\* ends the thread.
InputRead(key) ==
    /\ input_thread.pc = "read"
    /\ op' = "input_read"
    /\ IF consumer.alive
       THEN /\ Len(event_channel) < MaxQueue
            /\ key = "CONTROL+r" =>
                  consumer.resets_sent + ResetKeysIn(event_channel) < MaxResets
            /\ event_channel' = Append(event_channel, KeyInputEvent(key))
            /\ UNCHANGED input_thread
       ELSE /\ input_thread' = [input_thread EXCEPT !.pc = "ended"]
            /\ UNCHANGED event_channel
    /\ UNCHANGED <<program, lib_vars, main_vars, loop_vars, reset_channel, harvest_thread,
                   clean_thread, consumer, call_vars, time_vars>>

\* The loop receives an Update: the snapshot is merged (the app is not frozen).
ConsumerUpdate ==
    /\ consumer.alive /\ event_channel # <<>> /\ Head(event_channel).type = "Update"
    /\ op' = "Update"
    /\ event_channel' = Tail(event_channel)
    /\ consumer' = [consumer EXCEPT !.merged = Some([snapshot |-> Head(event_channel).cleared,
                                                     resets |-> consumer.resets_sent])]
    /\ UNCHANGED <<program, lib_vars, main_vars, loop_vars, reset_channel, harvest_thread,
                   clean_thread, input_thread, call_vars, time_vars>>

\* lib.rs 146-150, main.rs 253-257: the loop receives CONTROL+r: the Reset is
\* sent (the harvest thread holds the receiving end) and the app is reset.
ConsumerReset ==
    /\ consumer.alive /\ event_channel # <<>>
    /\ Head(event_channel) = KeyInputEvent("CONTROL+r")
    /\ op' = "Reset"
    /\ event_channel' = Tail(event_channel)
    /\ reset_channel' = reset_channel + 1
    /\ consumer' = [consumer EXCEPT !.resets_sent = @ + 1, !.merged = None]
    /\ UNCHANGED <<program, lib_vars, main_vars, loop_vars, harvest_thread, clean_thread,
                   input_thread, call_vars, time_vars>>

\* lib.rs 101-103, main.rs 223-225: the loop receives q and is left; the
\* receiving end is dropped with what it holds.
ConsumerQuit ==
    /\ consumer.alive /\ event_channel # <<>>
    /\ Head(event_channel) = KeyInputEvent("q")
    /\ op' = "quit"
    /\ event_channel' = <<>>
    /\ consumer' = [consumer EXCEPT !.alive = FALSE]
    /\ UNCHANGED <<program, lib_vars, main_vars, loop_vars, reset_channel, harvest_thread,
                   clean_thread, input_thread, call_vars, time_vars>>

\* main.rs 314-317: the loop receives Clean.
ConsumerClean ==
    /\ consumer.alive /\ event_channel # <<>> /\ Head(event_channel) = CleanEvent
    /\ op' = "Clean"
    /\ event_channel' = Tail(event_channel)
    /\ UNCHANGED <<program, lib_vars, main_vars, loop_vars, reset_channel, harvest_thread,
                   clean_thread, input_thread, consumer, call_vars, time_vars>>

NextThreads ==
    \/ HarvestTryRecv
    \/ HarvestUpdateData
    \/ HarvestSend
    \/ HarvestSleep
    \/ CleanSleep
    \/ CleanSend
    \/ \E key \in ThreadKeys : InputRead(key)
    \/ ConsumerUpdate
    \/ ConsumerReset
    \/ ConsumerQuit
    \/ ConsumerClean

SpecThreads == InitThreads /\ [][NextThreads]_vars

\* The threads under a fair scheduler: a thread that can take its step
\* takes it.  The sleeps, the collection and the sends return; the read of
\* the input thread returns when the user presses a key, which no scheduler
\* brings about, and the steps of the loop wait for what the channel holds.
SpecThreadsFair ==
    /\ InitThreads /\ [][NextThreads]_vars
    /\ WF_vars(HarvestTryRecv) /\ WF_vars(HarvestUpdateData)
    /\ WF_vars(HarvestSend) /\ WF_vars(HarvestSleep)
    /\ WF_vars(CleanSleep) /\ WF_vars(CleanSend)

(***************************************************************************)
(* main.rs: the loop that is always given its turn.  recv_timeout returns  *)
(* after TICK_RATE_IN_MILLISECONDS at the latest and draw_data returns, so *)
(* the steps of the loop are weakly fair; no event has to arrive and the   *)
(* harvest thread may stay in its collection for ever, so neither the arms *)
(* of the events nor the steps of the threads are fair.                    *)
(***************************************************************************)
\* The keys of the freeze and of the end of the loop.
LiveKeyEvents == {KeyEvent(Char(ascii.f), {}), KeyEvent(Char(ascii.q), {})}

NextLive ==
    \/ HarvestTryRecv
    \/ \E event \in LiveKeyEvents : LoopKeyInput(event)
    \/ \E data \in Snapshots : LoopUpdate(data)
    \/ LoopClean
    \/ LoopTimeout
    \/ DrawData
    \/ Cleanup

SpecLive ==
    InitHistory /\ [][NextLive]_vars /\ WF_vars(LoopTimeout) /\ WF_vars(DrawData)

(***************************************************************************)
(* The input thread under a clock.                                         *)
(***************************************************************************)
\* Most events the input thread reads in a run.
MaxInputs == 3

\* The two kinds of event the thread forwards.
InputSources == {"Key", "Mouse"}

\* The timer of the other source is taken when it is the later one.
throttle_timer_Shared(thread, source) ==
    IF thread.keyboard_timer >= thread.mouse_timer
    THEN thread.keyboard_timer
    ELSE thread.mouse_timer

\* lib.rs 692, 699; main.rs 158, 165: the timer an event is measured against.
throttle_timer(thread, source) ==
    IF source = "Key" THEN thread.keyboard_timer ELSE thread.mouse_timer

\* lib.rs 692, 699; main.rs 158, 165
\* Instant::now().duration_since(timer).as_millis() >= 20
throttle_passed(thread, source, now) == now - throttle_timer(thread, source) >= 20

\* lib.rs 696, 703; main.rs 162, 169
set_throttle_timer(thread, source, now) ==
    IF source = "Key"
    THEN [thread EXCEPT !.keyboard_timer = now]
    ELSE [thread EXCEPT !.mouse_timer = now]

\* An event of the channel: its kind and its place in the log of the reads.
InputEvent(source, id) == [type |-> source, id |-> id]

\* lib.rs 684-686, main.rs 151-153: the thread starts, both timers are set
\* to the time of the start.
InitInput ==
    /\ program \in {"main.rs", "lib.rs"}
    /\ op = "init"
    /\ app = NewApp([w \in {1} |-> DefaultWidgetState])
    /\ filtered_process_data = <<>>
    /\ main_app = NewMainApp
    /\ main_filtered = <<>>
    /\ NoLoop
    /\ event_channel = <<>>
    /\ reset_channel = 0
    /\ harvest_thread = [pc |-> "try_recv", cleared |-> 0, data |-> None]
    /\ clean_thread = [pc |-> IF program = "main.rs" THEN "sleep" ELSE "absent"]
    /\ input_thread = [pc |-> "read", keyboard_timer |-> 0, mouse_timer |-> 0,
                        source |-> ""]
    /\ consumer = [alive |-> TRUE, resets_sent |-> 0, merged |-> None]
    /\ NoCall /\ NoTime

\* lib.rs 689-692, 698-699; main.rs 155-158, 164-165: an event is read
\* and measured against the timer of its source; an event that comes too
\* early is dropped at the end of the iteration.
InputReadEvent(source) ==
    /\ input_thread.pc = "read"
    /\ Len(input_log) < MaxInputs
    /\ op' = "input_read"
    /\ LET passed == throttle_passed(input_thread, source, current_time)
       IN  /\ input_log' = Append(input_log, [source |-> source, at |-> current_time,
                                               forwarded |-> passed,
                                               sent_at |-> -1, timer_at |-> -1])
           /\ input_thread' = IF passed
                               THEN [input_thread EXCEPT !.pc = "send", !.source = source]
                               ELSE input_thread
    /\ UNCHANGED <<program, lib_vars, main_vars, loop_vars, event_channel, reset_channel,
                   harvest_thread, clean_thread, consumer, call_vars, current_time,
                   timed_data_vec, update_rate_in_milliseconds>>

\* lib.rs 693-695, 700-702 (break); main.rs 159-161, 166-168 (return)
InputSend ==
    /\ input_thread.pc = "send"
    /\ op' = "input_send"
    /\ IF consumer.alive
       THEN /\ event_channel' = Append(event_channel,
                                        InputEvent(input_thread.source, Len(input_log)))
            /\ input_log' = [input_log EXCEPT ![Len(input_log)].sent_at = current_time]
            /\ input_thread' = [input_thread EXCEPT !.pc = "set_timer"]
       ELSE /\ input_thread' = [input_thread EXCEPT !.pc = "ended"]
            /\ UNCHANGED <<event_channel, input_log>>
    /\ UNCHANGED <<program, lib_vars, main_vars, loop_vars, reset_channel,
                   harvest_thread, clean_thread, consumer, call_vars, current_time,
                   timed_data_vec, update_rate_in_milliseconds>>

\* lib.rs 696, 703; main.rs 162, 169
InputSetTimer ==
    /\ input_thread.pc = "set_timer"
    /\ op' = "input_set_timer"
    /\ input_thread' = [set_throttle_timer(input_thread, input_thread.source, current_time)
                            EXCEPT !.pc = "read", !.source = ""]
    /\ input_log' = [input_log EXCEPT ![Len(input_log)].timer_at = current_time]
    /\ UNCHANGED <<program, lib_vars, main_vars, loop_vars, event_channel, reset_channel,
                   harvest_thread, clean_thread, consumer, call_vars, current_time,
                   timed_data_vec, update_rate_in_milliseconds>>

\* main.rs 337-339: the loop is left and the receiving end of the channel
\* is dropped with what it holds.
ReceiverDropped ==
    /\ consumer.alive
    /\ op' = "quit"
    /\ event_channel' = <<>>
    /\ consumer' = [consumer EXCEPT !.alive = FALSE]
    /\ UNCHANGED <<program, lib_vars, main_vars, loop_vars, reset_channel, harvest_thread,
                   clean_thread, input_thread, call_vars, time_vars>>

NextInput ==
    \/ \E d \in {10, 20} : Tick(d, MaxTicks * 10)
    \/ \E source \in InputSources : InputReadEvent(source)
    \/ InputSend
    \/ InputSetTimer
    \/ ReceiverDropped

SpecInput == InitInput /\ [][NextInput]_vars

\* The events of one source that were read before the j-th and forwarded.
ForwardedBefore(source, j) ==
    {i \in 1..(j - 1) : input_log[i].source = source /\ input_log[i].forwarded}

\* The time of the last forward of the source before the j-th read: when
\* the timer was set after it, or the start of the thread.
LastForward(source, j) ==
    IF ForwardedBefore(source, j) = {} THEN 0
    ELSE input_log[CHOOSE i \in ForwardedBefore(source, j) :
                      \A k \in ForwardedBefore(source, j) : k <= i].timer_at

\* The places in the log of the events of the channel.
RECURSIVE IdsOf(_)
IdsOf(queue) == IF queue = <<>> THEN <<>> ELSE <<Head(queue).id>> \o IdsOf(Tail(queue))

\* The places in the log of the events that were sent, in order.
RECURSIVE SentIds(_)
SentIds(j) ==
    IF j = 0 THEN <<>>
    ELSE SentIds(j - 1) \o (IF input_log[j].sent_at >= 0 THEN <<j>> ELSE <<>>)

\* C12: of one source, two forwarded events are sent at least 20 ms
\* apart; an event read less than 20 ms after the last forwarded event of
\* its source was sent is dropped, and what the channel holds is exactly the
\* forwarded events, so a dropped event is never forwarded later; whether an
\* event is forwarded depends on the reads of its own source only: it is
\* forwarded exactly when 20 ms have passed since the timer of its source
\* was last set.
C12_SourcesThrottledIndependently ==
    /\ \A j \in 1..Len(input_log) : \A i \in ForwardedBefore(input_log[j].source, j) :
          /\ input_log[i].sent_at >= input_log[i].at
          /\ input_log[i].timer_at >= input_log[i].sent_at
          /\ input_log[j].at - input_log[i].sent_at < 20 => ~input_log[j].forwarded
          /\ input_log[j].sent_at >= 0 => input_log[j].sent_at - input_log[i].sent_at >= 20
    /\ \A j \in 1..Len(input_log) :
          /\ input_log[j].forwarded
                <=> input_log[j].at - LastForward(input_log[j].source, j) >= 20
          /\ ~input_log[j].forwarded => input_log[j].sent_at = -1
    /\ consumer.alive => IdsOf(event_channel) = SentIds(Len(input_log))
    /\ \A n \in 1..Len(event_channel) :
          /\ event_channel[n].id \in 1..Len(input_log)
          /\ input_log[event_channel[n].id].forwarded
          /\ input_log[event_channel[n].id].source = event_channel[n].type

\* C12 witness: a key event is forwarded, and then within 20 ms of it a
\* mouse event is forwarded and a second key event is dropped; the channel
\* holds the first key event and the mouse event.
C12_Witness ==
    /\ Len(input_log) = 3 /\ consumer.alive
    /\ input_log[1].source = "Key" /\ input_log[1].forwarded
    /\ input_log[2].source = "Mouse" /\ input_log[2].forwarded
    /\ input_log[2].sent_at - input_log[1].sent_at < 20
    /\ input_log[3].source = "Key" /\ ~input_log[3].forwarded
    /\ IdsOf(event_channel) = <<1, 2>>

(***************************************************************************)
(* Properties of the main thread and of the threads.                       *)
(***************************************************************************)
\* C1: while the freeze flag is set, the processing of an Update event (the
\* Update arm of main.rs, update_all_process_lists of lib.rs) leaves every
\* finalized process list as it was; so does any number of them.
C1_FrozenUpdateKeepsLists ==
    [][/\ (program = "main.rs" /\ main_app.is_frozen /\ op' = "Update")
          => main_app'.finalized_process_data = main_app.finalized_process_data
       /\ (program = "lib.rs" /\ app.is_frozen /\ op' = "Update")
          => app'.finalized_process_data_map = app.finalized_process_data_map]_vars

\* C1 witness: a frozen app that shows a list has received a snapshot other
\* than the one the list was made from.
C1_Witness ==
    /\ program = "main.rs" /\ op = "Update"
    /\ main_app.is_frozen
    /\ recv # None /\ recv[1] # main_app.data_collection
    /\ Len(main_app.finalized_process_data) = 3
    /\ Len(recv[1]) = 1

\* C2: after a recompute of a finalized list the scroll position is below
\* the length of a list that is not empty and 0 for an empty list; when the
\* list became no longer than the position before, the position is the last
\* row and the scroll direction is Down (lib.rs and main.rs).
C2_ClampAfterRecompute ==
    [][op' = "update_final_process_list" =>
        /\ program = "lib.rs" =>
              LET len == Len(app'.finalized_process_data_map[1])
                  new == app'.widget_states[1]
              IN  /\ IF len = 0 THEN new.current_scroll_position = 0
                      ELSE new.current_scroll_position < len
                  /\ app.widget_states[1].current_scroll_position >= len
                      => /\ new.current_scroll_position = saturating_sub(len, 1)
                         /\ new.scroll_direction = "Down"
        /\ program = "main.rs" =>
              LET len == Len(main_app'.finalized_process_data)
                  new == main_app'.currently_selected_process_position
              IN  /\ IF len = 0 THEN new = 0 ELSE new < len
                  /\ main_app.currently_selected_process_position >= len
                      => new = saturating_sub(len, 1)]_vars

\* lib.rs alone: the clamp of C2.
ClampLib ==
    Recomputed("lib.rs")
    => LET len == Len(app.finalized_process_data_map[1])
       IN  IF len = 0 THEN app.widget_states[1].current_scroll_position = 0
           ELSE app.widget_states[1].current_scroll_position < len

\* C3: when main has ended, raw mode is off, the alternate screen is left
\* and the cursor is shown, whatever the path to the end was.
C3_TerminalRestoredAtExit ==
    pc = "exited"
    => ~terminal.raw_mode /\ ~terminal.alternate_screen /\ ~terminal.cursor_hidden

\* C4: no producer thread panics: a thread whose send failed has ended.
C4_ProducersEndNormally ==
    /\ harvest_thread.pc # "panicked"
    /\ clean_thread.pc # "panicked"

\* lib.rs alone: the harvest thread of create_event_thread never panics.
LibHarvestEndsNormally == program = "lib.rs" => harvest_thread.pc # "panicked"

\* C5: a snapshot merged after a Reset was collected after the baselines
\* were cleared for that Reset: it carries at least as many clears as
\* Resets were sent before the merge.
C5_NoStaleSnapshotAfterReset ==
    consumer.merged # None => consumer.merged[1].snapshot >= consumer.merged[1].resets

\* C11: the Clean arm of main.rs with the retention window
\* STALE_MAX_MILLISECONDS removes every sample of the history that is older
\* than the window, keeps every sample within it, in order, and leaves the
\* finalized list, the settings and the data of the latest snapshot as they were.
C11_CleanDropsOnlyStaleSamples ==
    [][(program = "main.rs" /\ op' = "Clean")
        => LET Within(t) == current_time - t <= STALE_MAX_MILLISECONDS
           IN  /\ timed_data_vec' = SelectSeq(timed_data_vec, Within)
               /\ main_app' = main_app
               /\ recv' = recv]_vars

\* C11 witness: after a Clean the history is empty while the data of the
\* merged snapshot and the list of its three processes are still there.
C11_Witness ==
    /\ program = "main.rs" /\ op = "Clean"
    /\ current_time > STALE_MAX_MILLISECONDS
    /\ timed_data_vec = <<>>
    /\ Len(main_app.data_collection) = 3
    /\ Len(main_app.finalized_process_data) = 3

\* A Clean has kept the sample within the window.
CleanKeptSample ==
    /\ program = "main.rs" /\ op = "Clean"
    /\ current_time = 80000
    /\ timed_data_vec = <<40000>>

\* C16: the Update arm of main.rs on a frozen app leaves the history and
\* all of the app, the canvas data included, as they were; on an app that
\* is not frozen, whether it was frozen before or not, the snapshot becomes
\* the data of the app, a sample is added to the history and the process
\* data are converted from it.
C16_FrozenUpdateDiscardedWhole ==
    [][/\ (program = "main.rs" /\ op' = "Update" /\ main_app.is_frozen)
          => /\ main_app' = main_app
             /\ timed_data_vec' = timed_data_vec
       /\ (program = "main.rs" /\ op' = "Update" /\ ~main_app.is_frozen)
          => /\ main_app'.data_collection = recv'[1]
             /\ main_app'.process_data = main_convert_single(recv'[1])
             /\ Len(timed_data_vec') = Len(timed_data_vec) + 1
             /\ timed_data_vec'[Len(timed_data_vec')] <= current_time]_vars

\* C16 witness: a frozen app with a history has received, later than its
\* last sample, a snapshot other than the one it shows.
C16_Witness ==
    /\ program = "main.rs" /\ op = "Update"
    /\ main_app.is_frozen
    /\ timed_data_vec # <<>> /\ timed_data_vec[Len(timed_data_vec)] < current_time
    /\ recv # None /\ Len(recv[1]) = 3
    /\ Len(main_app.data_collection) = 1

\* C19: after an Update is processed by an app that is not frozen, and
\* before the draw, the snapshot is the data of the app, the history has
\* its sample, and every finalized process list is the one a recompute from
\* the merged data gives (main.rs, and every widget of lib.rs).
C19_UpdateRecomputesEveryList ==
    /\ (program = "main.rs" /\ op = "Update" /\ ~main_app.is_frozen)
        => /\ main_app.data_collection = recv[1]
           /\ timed_data_vec # <<>>
           /\ main_app.process_data = main_convert_single(recv[1])
           /\ main_app.grouped_process_data = main_convert_grouped(recv[1])
           /\ main_app.finalized_process_data =
                 main_update_final_process_list(main_app).finalized_process_data
           /\ Pids(main_app.finalized_process_data) \subseteq Pids(recv[1])
    /\ (program = "lib.rs" /\ op = "Update" /\ ~app.is_frozen)
        => /\ app.data_collection = recv[1]
           /\ app.single_process_data = convert_process_data(recv[1])
           /\ \A w \in DOMAIN app.widget_states :
                 /\ app.finalized_process_data_map[w] =
                       update_final_process_list(app, w).finalized_process_data_map[w]
                 /\ Pids(app.finalized_process_data_map[w]) \subseteq Pids(recv[1])

\* C19 witness: lib.rs has merged a snapshot of three processes; the list
\* of the widget that is not grouped has three rows, the list of the
\* grouped widget two.
C19_Witness ==
    /\ program = "lib.rs" /\ op = "Update" /\ ~app.is_frozen
    /\ ~app.widget_states[1].is_grouped /\ app.widget_states[2].is_grouped
    /\ Len(app.finalized_process_data_map[1]) = 3
    /\ Len(app.finalized_process_data_map[2]) = 2

\* C20: every wait of the loop of main.rs is followed by a draw, unless
\* a key that ends the loop was received in it, whether or not an event
\* ever arrives and whether or not the harvest thread ever leaves its
\* collection, so a loop that is not left draws again and again; an
\* iteration draws once: from the wait the loop goes to the
\* draw or to the end, from the draw to the next wait or, when the draw
\* has failed, to the end.
C20_EveryWaitLeadsToDraw ==
    /\ (pc = "recv_timeout") ~> (op = "draw_data" \/ pc = "cleanup")
    /\ []<>(op = "draw_data" \/ pc \in {"cleanup", "exited"})
    /\ [][/\ pc = "recv_timeout" => pc' \in {"recv_timeout", "draw_data", "cleanup"}
          /\ pc = "draw_data" => pc' \in {"draw_data", "recv_timeout", "exited"}
          /\ op' = "draw_data" => pc = "draw_data" /\ pc' # "draw_data"]_vars

\* C20 witness: the loop is back at its wait after a draw; no event was
\* ever received and the harvest thread is in its collection.
C20_Witness ==
    /\ program = "main.rs" /\ op = "draw_data" /\ pc = "recv_timeout"
    /\ recv = None /\ main_app.data_collection = <<>> /\ ~main_app.is_frozen
    /\ timed_data_vec = <<>>
    /\ harvest_thread.pc = "update_data"

\* C21: once the receiving end of the event channel is dropped, the harvest
\* thread, the input thread and the thread of the Clean timer all come to
\* their end.
C21_ProducersTerminate ==
    (~consumer.alive)
        ~> (/\ harvest_thread.pc \in {"ended", "panicked"}
            /\ clean_thread.pc \in {"absent", "ended", "panicked"}
            /\ input_thread.pc = "ended")

\* The threads that send whether or not the user does anything come to
\* their end: the harvest thread and the thread of the Clean timer.
SendingThreadsTerminate ==
    (~consumer.alive)
        ~> (/\ harvest_thread.pc \in {"ended", "panicked"}
            /\ clean_thread.pc \in {"absent", "ended", "panicked"})

\* The input thread ends only by a send that failed.
InputThreadEndsOnFailedSend ==
    [][input_thread.pc # "ended" /\ input_thread'.pc = "ended"
        => ~consumer.alive /\ op' = "input_read"]_vars

\* C30: an iteration of the harvest thread takes at most one Reset, in a
\* check that does not wait and that comes before the collection of the
\* iteration; the baselines are cleared once for each Reset taken and at no
\* other time, so every Reset sent is either still on the control channel or
\* has cleared the baselines once: none is lost, no two count as one.
C30_OneResetPerIteration ==
    /\ [](harvest_thread.cleared + reset_channel = consumer.resets_sent)
    /\ [][/\ (op' = "try_recv" /\ reset_channel > 0)
               => /\ reset_channel' = reset_channel - 1
                  /\ harvest_thread'.cleared = harvest_thread.cleared + 1
          /\ (op' = "try_recv" /\ reset_channel = 0)
               => /\ reset_channel' = 0
                  /\ harvest_thread'.cleared = harvest_thread.cleared
          /\ op' = "try_recv" => harvest_thread'.pc = "update_data"
          /\ harvest_thread'.cleared # harvest_thread.cleared => op' = "try_recv"
          /\ (harvest_thread.pc # "update_data" /\ harvest_thread'.pc = "update_data")
               => op' = "try_recv"
          /\ op' = "update_data"
               => harvest_thread'.data = Some(harvest_thread.cleared)]_vars

\* C30 witness: of two Resets that were on the control channel together the
\* harvest thread has taken one in this iteration; the other is still there.
C30_Witness ==
    /\ op = "try_recv"
    /\ consumer.resets_sent = 2
    /\ harvest_thread.cleared = 1
    /\ reset_channel = 1
    /\ harvest_thread.pc = "update_data"

\* C24: when a draw has failed and the program has ended, the terminal
\* was restored before the return and the error returned is the error of
\* the draw (main.rs 329-335, lib.rs try_drawing).
C24_DrawErrorReturnedAfterRestore ==
    (pc = "exited" /\ op \in {"draw_data", "try_drawing"})
    => /\ exit_result = "Err(draw)"
       /\ terminal = CookedTerminal

\* What the code does keep: the error of the draw is returned exactly when
\* every step of the cleanup succeeded, and then the terminal is restored;
\* otherwise the error returned is the one of the cleanup step that failed.
DrawErrorKeptIfCleanupSucceeds ==
    (pc = "exited" /\ op \in {"draw_data", "try_drawing"})
    => /\ exit_result \in {"Err(draw)", "Err(cleanup)"}
       /\ exit_result = "Err(draw)" => terminal = CookedTerminal

\* C27: in handle_force_redraws a request for every widget goes before a
\* request for one widget: with both pending the list of every widget is
\* recomputed (unless the app is frozen), force_update_all is cleared and the
\* request for the one widget stays; with only the latter pending that
\* widget is recomputed and the request is cleared; a second call right
\* after the first leaves neither request pending.
C27_AllBeforeOne ==
    [][(program = "lib.rs" /\ op' = "handle_force_redraws")
        => /\ app.force_update_all
                => /\ ~app'.force_update_all
                   /\ app'.force_update = app.force_update
                   /\ ~app.is_frozen
                        => \A w \in DOMAIN app.widget_states :
                              app'.finalized_process_data_map[w] =
                                 update_final_process_list(app, w).finalized_process_data_map[w]
           /\ (~app.force_update_all /\ app.force_update # None)
                => /\ app'.force_update = None
                   /\ ~app'.force_update_all
                   /\ \A w \in DOMAIN app.widget_states :
                         app'.finalized_process_data_map[w] =
                            IF w = app.force_update[1]
                            THEN update_final_process_list(app, w).finalized_process_data_map[w]
                            ELSE app.finalized_process_data_map[w]
           /\ (~app.force_update_all /\ app.force_update = None) => app' = app
           /\ LET second == handle_force_redraws(app')
              IN  /\ ~second.force_update_all
                  /\ second.force_update = None
                  /\ app'.force_update # None
                       => second.finalized_process_data_map[app'.force_update[1]] =
                             update_final_process_list(app', app'.force_update[1])
                                .finalized_process_data_map[app'.force_update[1]]]_vars

\* C27 witness: after a call of handle_force_redraws the request for one
\* widget is still pending, so both were pending before it; the lists of
\* both widgets are the empty lists of the data a Reset has cleared.
C27_Witness ==
    /\ program = "lib.rs" /\ op = "handle_force_redraws"
    /\ ~app.is_frozen
    /\ ~app.force_update_all /\ app.force_update = Some(1)
    /\ app.widget_states[1].is_grouped
    /\ \A w \in DOMAIN app.widget_states : app.finalized_process_data_map[w] = <<>>

\* C28: handle_force_redraws on a frozen app with a request for every
\* widget pending clears the request and leaves every list and every
\* scroll state as it was; the step that ends the freeze does not bring the
\* request back and changes no list.
C28_FrozenRequestDropped ==
    [][/\ (program = "lib.rs" /\ op' = "handle_force_redraws"
                /\ app.is_frozen /\ app.force_update_all)
          => /\ ~app'.force_update_all
             /\ app'.finalized_process_data_map = app.finalized_process_data_map
             /\ app'.widget_states = app.widget_states
             /\ app'.single_process_data = app.single_process_data
       /\ (program = "lib.rs" /\ pc' = "loop" /\ app.is_frozen /\ ~app'.is_frozen)
          => /\ app'.force_update_all = app.force_update_all
             /\ app'.force_update = app.force_update
             /\ app'.finalized_process_data_map = app.finalized_process_data_map]_vars

\* C28 witness: a frozen app whose data a Reset has cleared has had its
\* request for every widget handled: the request is gone and the lists
\* still have the three processes of the frozen snapshot.
C28_Witness ==
    /\ program = "lib.rs" /\ op = "handle_force_redraws"
    /\ app.is_frozen
    /\ ~app.force_update_all /\ app.force_update = None
    /\ app.data_collection = <<>>
    /\ \A w \in DOMAIN app.widget_states : Len(app.finalized_process_data_map[w]) = 3

\* C29: while the app of lib.rs is frozen no step changes the converted
\* process data, a recompute of one widget included, so the list that
\* handle_force_redraws recomputes for a widget of a frozen app has only
\* processes of the frozen snapshot.
C29_FrozenDataNotRefreshed ==
    [][/\ (program = "lib.rs" /\ pc' = "loop" /\ app.is_frozen /\ app'.is_frozen)
          => app'.single_process_data = app.single_process_data
       /\ (program = "lib.rs" /\ op' = "handle_force_redraws" /\ app.is_frozen
                /\ ~app.force_update_all /\ app.force_update # None)
          => /\ app'.single_process_data = app.single_process_data
             /\ Pids(app'.finalized_process_data_map[app.force_update[1]])
                   \subseteq Pids(app.single_process_data)
             /\ app'.finalized_process_data_map[app.force_update[1]] =
                   update_final_process_list(
                       [app EXCEPT !.data_collection = <<>>],
                       app.force_update[1]).finalized_process_data_map[app.force_update[1]]]_vars

\* C29 witness: a frozen app whose data a Reset has cleared has recomputed
\* the list of the widget that was switched to the grouped mode during the
\* freeze: two rows for the three processes of the frozen snapshot.
C29_Witness ==
    /\ program = "lib.rs" /\ op = "handle_force_redraws"
    /\ app.is_frozen
    /\ app.data_collection = <<>>
    /\ Len(app.single_process_data) = 3
    /\ app.widget_states[1].is_grouped
    /\ ~app.force_update_all /\ app.force_update = None
    /\ Len(app.finalized_process_data_map[1]) = 2
    /\ Len(app.finalized_process_data_map[2]) = 3

=============================================================================
